---- MODULE Spec2Model ----
(***************************************************************************)
(* Identity core of the minispace backend (backend/src/services/auth.rs):  *)
(* login / 2FA / device trust / refresh rotation / password changes, over  *)
(* the tenant-schema tables of backend/src/db/tenant.rs.                    *)
(*                                                                         *)
(* Every request handler is an async function whose SQL statements are     *)
(* awaited one after the other on a shared pool, with no transaction, so   *)
(* each SQL statement is one atomic step and the statements of concurrent  *)
(* requests interleave.  Computation between two statements is local to    *)
(* the request and is folded into the step of the statement before it.     *)
(* Of the database errors (a failed `.await?`) the model has those the    *)
(* inputs can cause: a tenant without schema, a duplicate email; and the   *)
(* one the code handles itself (validate_device_token).                    *)
(*                                                                         *)
(* Time is counted in units of 15 minutes.                                 *)
(***************************************************************************)
EXTENDS Integers, Naturals, Sequences, FiniteSets, TLC

\* ---------------------------------------------------------------- bounds
MaxRefresh   == 4    \* rows ever inserted into refresh_tokens
MaxCodes     == 2    \* rows ever inserted into two_factor_codes
MaxDevices   == 2    \* rows ever inserted into trusted_devices
MaxResets    == 1    \* rows ever inserted into password_reset_tokens
MaxTicks     == 1    \* clock advances
MaxInvites   == 2    \* rows ever inserted into invitation_tokens
MaxUploads   == 2    \* encrypt_file calls of uploads
MaxNamed     == 2    \* results of schema_name kept
MaxSlugLen   == 3    \* characters of a short slug
MaxCount     == 7    \* value a rate-limit counter can reach
MaxRedisErrors == 1  \* INCR commands that fail

\* ------------------------------------------------------- program constants
TwoFactorTtl    == 1       \* chrono::Duration::minutes(15)
ResetTtl        == 4       \* chrono::Duration::hours(1)
DeviceTtl       == 2880    \* chrono::Duration::days(30)
RefreshTtlDays  == 30      \* Config::jwt_refresh_expiry_days default
UnitsPerDay     == 24 * 4  \* the time unit is a quarter of an hour
MaxAttempts     == 3       \* `if attempts >= 3`
CodeLow         == 100000  \* gen_range(100000..=999999)
CodeHigh        == 999999

Procs == {1, 2}               \* request slots: two requests can be in flight

\* ------------------------------------------------------------ input sets
Tenant        == "acme"
OtherTenant   == "beta"                     \* a second tenant with its own schema
TenantInputs  == {"acme", "ghost"}          \* "ghost" has no schema
UserIds       == {"u1", "u2"}
Emails        == {"a@x", "b@x", "nobody@x"}
\* "off@x" is the address of the deactivated account u3.
AllEmails     == Emails \cup {"off@x"}
Passwords     == {"pw1", "pw2"}
TempPassword  == "tmp12"                    \* the 12 random characters of an admin reset
CodeSpace     == {CodeLow, CodeHigh}        \* the two ends of the 6-digit range
CodeInputs    == {ToString(c) : c \in CodeSpace}
RefreshSecret == "jwt_refresh_secret"
NoUser        == "nobody"

\* ------------------------------------------------------- pure functions

\* backend/src/db/tenant.rs: format!("garderie_{}", slug.to_lowercase().replace('-', "_"))
\* on the slugs of TenantInputs (lower-case, no hyphen).
schema_name(slug) == "garderie_" \o slug

\* bcrypt::hash: a salted digest of at most the first 72 bytes of the input.
\* Inputs of the model are values, so the digest wraps the value.
bcrypt_hash(x) == <<"bcrypt", x>>
bcrypt_verify(x, h) == h = bcrypt_hash(x)

\* A refresh JWT is  b64(header).b64({"sub":..,"jti":..,"exp":..,"iat":..}).sig :
\* 37 bytes of header and dot, then the payload, which starts with the 36-byte
\* user id.  Its first 72 bytes therefore stop inside `sub`, before `jti`.
JwtPrefix72(tok) == <<"HS256", tok.sub>>

\* jsonwebtoken::encode with claims RefreshClaims {sub, jti, iat, exp}
generate_refresh_token(user_id, secret, ttl_days, jti, t) ==
    [sub |-> user_id, jti |-> jti, exp |-> t + ttl_days * UnitsPerDay, sig |-> secret]

\* jsonwebtoken::decode with Validation::new(HS256): signature, then exp
\* (the 60 s leeway is below the time unit).
decode_ok(tok, secret, t) == tok.sig = secret /\ tok.exp >= t

\* The device cookie format!("{id}.{secret}") as the list of its '.'-separated
\* segments.  A segment is a number: a row id (a uuid) is positive, 0 stands
\* for any text that is not a uuid.
cookie_format(id, secret) == <<id, secret>>

\* cookie_value.splitn(2, '.') : the first segment, and the rest unsplit.
splitn2(c) == IF Len(c) <= 1 THEN <<c>> ELSE <<<<c[1]>>, SubSeq(c, 2, Len(c))>>

\* parts[0].parse::<Uuid>()
parse_uuid_ok(part) == Len(part) = 1 /\ part[1] > 0

\* The 48 random alphanumeric characters of a device secret: never repeated,
\* so the secret of the n-th device row is a number of its own.
device_secret(n) == 100 + n

\* --------------------------------------------------------------- state
VARIABLES
    users,                  \* {schema}.users
    refresh_tokens,         \* {schema}.refresh_tokens
    two_factor_codes,       \* {schema}.two_factor_codes
    trusted_devices,        \* {schema}.trusted_devices
    password_reset_tokens,  \* {schema}.password_reset_tokens
    invitation_tokens,      \* {schema}.invitation_tokens
    seq,                    \* rows ever inserted per table (fresh uuids)
    now,                    \* Utc::now() / NOW()
    ticks,                  \* clock advances so far
    email_svc,              \* AppState.email is Some(..)
    call,                   \* the requests in flight, one per slot
    ret,                    \* the response the last step returned, if it returned one
    issued,                 \* what responses and emails have handed out
    hist,                   \* history of completed requests (NoHist)
    master_key,             \* the master key bytes handed to derive_tenant_key
    master_hex,             \* Config.encryption_master_key, as configured
    encrypted,              \* the encrypt_file calls so far: key, OsRng draw, iv
    derived,                \* the results of derive_tenant_key so far
    blob,                   \* one stored file: plaintext, key, ciphertext, iv, tag
    out,                    \* the result of the last encryption-service call
    http,                   \* the last request the extractors handled, and their answers
    named,                  \* the results of schema_name so far
    redis,                  \* the rate-limit counters: value and time to live per key
    rate                    \* history of check_rate_limit per key (NoRate)

db   == <<users, refresh_tokens, two_factor_codes, trusted_devices,
          password_reset_tokens, invitation_tokens, seq>>
env  == <<now, ticks, email_svc>>
files == <<master_key, master_hex, derived, encrypted, blob, out>>
web  == <<http, named, redis, rate>>
vars == <<users, refresh_tokens, two_factor_codes, trusted_devices,
          password_reset_tokens, invitation_tokens, seq, now, ticks, email_svc,
          call, ret, issued, hist, master_key, master_hex, derived, encrypted,
          blob, out, http, named, redis, rate>>

NoCookie == << >>           \* the request carries no tdt cookie
NoToken  == [sub |-> NoUser, jti |-> 0, exp |-> 0, sig |-> "none"]

\* Nothing has been asked of the request extractors, of schema_name or of
\* the rate limiter.
NoHttp  == [op |-> "none"]
RateKeys == {"rate:login:acme:a@x"}     \* routes/auth.rs 65
NoTtl    == -1                          \* TTL of a key that never expires
NoKey    == [count |-> 0, ttl |-> NoTtl] \* a key that does not exist
NoRedis  == [k \in RateKeys |-> NoKey]
\* History of check_rate_limit, per key: the calls admitted while the key
\* exists (from its creation on), the INCR commands that failed, and whether
\* an EXPIRE has moved a time to live that was already set.
NoRate   == [k \in RateKeys |->
                [admitted |-> 0, errors |-> 0, extended |-> FALSE]]
NoWeb   == http = NoHttp /\ named = {} /\ redis = NoRedis /\ rate = NoRate

\* A request slot.  `op` is the handler, `pc` the statement it is about to run.
Idle == [op |-> "none", pc |-> "idle",
         tenant |-> Tenant, cookie |-> NoCookie, code |-> "",
         token |-> NoToken, uid |-> NoUser, row |-> 0, password |-> "", email |-> "",
         new_rt |-> NoToken, pre |-> {}, late |-> FALSE, stale |-> FALSE]

\* A response: the handler, its result, and the request it answers.
NoRet == [op |-> "none", result |-> "none", req |-> Idle, new_dev |-> NoCookie]

Schema == schema_name(Tenant)

\* History, for stating the claims: per refresh token the refreshes that
\* succeeded with it, the tokens that were valid when a completed credential
\* change began, per 2FA code the verifications that failed on it and those
\* that succeeded with it, the device cookies that a login has accepted and
\* answered with a new one, per reset token the reset_password calls that
\* succeeded with it.
NoHist == [rotated |-> [j \in 1..MaxRefresh |-> 0], superseded |-> {},
           failed |-> [c \in 1..MaxCodes |-> 0],
           consumed |-> [c \in 1..MaxCodes |-> 0],
           devused |-> {},
           redeemed |-> [t \in 1..MaxResets |-> 0],
           created |-> [i \in 1..MaxInvites |-> 0],
           registered |-> [i \in 1..MaxInvites |-> 0]]

\* The master key of the unit tests, 32 zero bytes (encryption.rs 103).
MasterZero == [i \in 1..32 |-> 0]
NoBlob == [state |-> "none", plaintext |-> <<>>, key |-> <<>>,
           ciphertext |-> <<>>, iv |-> <<>>, tag |-> <<>>, flipped |-> FALSE]
NoOut  == [op |-> "none", result |-> "none", value |-> <<>>, key |-> <<>>,
           tenant |-> <<>>, status |-> 0]
\* 64 hex digits '0', as their values; 16 stands for a character that is no
\* hex digit.
HexZero == [i \in 1..64 |-> 0]

Init ==
    /\ users = { [schema |-> Schema, id |-> "u1", email |-> "a@x",
                  password_hash |-> bcrypt_hash("pw1"), is_active |-> TRUE,
                  force_password_change |-> FALSE],
                 [schema |-> Schema, id |-> "u2", email |-> "b@x",
                  password_hash |-> bcrypt_hash("pw2"), is_active |-> TRUE,
                  force_password_change |-> FALSE],
                 [schema |-> Schema, id |-> "u3", email |-> "off@x",
                  password_hash |-> bcrypt_hash("pw1"), is_active |-> FALSE,
                  force_password_change |-> FALSE] }
    /\ refresh_tokens = {}
    /\ two_factor_codes = {}
    /\ trusted_devices = {}
    /\ password_reset_tokens = {}
    /\ invitation_tokens = {}
    /\ seq = [rt |-> 0, code |-> 0, dev |-> 0, reset |-> 0, inv |-> 0, user |-> 0]
    /\ now = 0
    /\ ticks = 0
    /\ email_svc \in BOOLEAN
    /\ call = [p \in Procs |-> Idle]
    /\ ret = NoRet
    /\ issued = [rt |-> {}, dev |-> {}, reset |-> {}]
    /\ hist = NoHist
    /\ master_key = MasterZero /\ derived = {} /\ blob = NoBlob /\ out = NoOut
    /\ master_hex = HexZero /\ encrypted = <<>>
    /\ NoWeb

\* ------------------------------------------------------------- helpers
\* A new request takes the lowest free slot.
Start(p)      == call[p].pc = "idle" /\ \A q \in Procs : q < p => call[q].pc # "idle"
At(p, op, pc) == call[p].op = op /\ call[p].pc = pc
Goto(p, r)    == call' = [call EXCEPT ![p] = r] /\ ret' = NoRet
\* The handler returns `res` for request r; the slot is free again.
Return(p, r, res) ==
    /\ call' = [call EXCEPT ![p] = Idle]
    /\ ret' = [op |-> r.op, result |-> res, req |-> [r EXCEPT !.pc = "idle"],
               new_dev |-> NoCookie]
ReturnDevice(p, r, res, dev) ==
    /\ call' = [call EXCEPT ![p] = Idle]
    /\ ret' = [op |-> r.op, result |-> res, req |-> [r EXCEPT !.pc = "idle"],
               new_dev |-> dev]

\* pg_namespace: the schemas provision_tenant_schema has created
schemas == {Schema, schema_name(OtherTenant)}

\* SELECT ... FROM {schema}.users WHERE email = $1 AND is_active = TRUE
ActiveByEmail(schema, email) ==
    {u \in users : u.schema = schema /\ u.email = email /\ u.is_active}

\* SELECT ... FROM {schema}.users WHERE id = $1 AND is_active = TRUE
ActiveById(schema, id) ==
    {u \in users : u.schema = schema /\ u.id = id /\ u.is_active}

\* generate_refresh_token at the current time, with the next fresh jti
NewRefreshToken(user_id) ==
    generate_refresh_token(user_id, RefreshSecret, RefreshTtlDays, seq.rt + 1, now)

\* bcrypt::hash(&token, 8) and
\* INSERT INTO {schema}.refresh_tokens (id, user_id, token_hash, expires_at)
InsertRefresh(schema, user_id) ==
    /\ refresh_tokens' = refresh_tokens \cup
        { [schema |-> schema, id |-> seq.rt + 1, user_id |-> user_id,
           token_hash |-> bcrypt_hash(JwtPrefix72(NewRefreshToken(user_id))),
           expires_at |-> now + RefreshTtlDays * UnitsPerDay,
           revoked |-> FALSE] }
    /\ seq' = [seq EXCEPT !.rt = @ + 1]

\* generate_device_token: a fresh id and secret, the hash of the secret stored
\* with a 30-day expiry; returns the cookie value.
NewDeviceCookie == cookie_format(seq.dev + 1, device_secret(seq.dev + 1))

generate_device_token(schema, user_id) ==
    /\ trusted_devices' = trusted_devices \cup
        { [schema |-> schema, id |-> seq.dev + 1, user_id |-> user_id,
           token_hash |-> bcrypt_hash(<<device_secret(seq.dev + 1)>>),
           expires_at |-> now + DeviceTtl] }
    /\ seq' = [seq EXCEPT !.dev = @ + 1]

\* A device check that does not look at the owner of the row.
validate_device_token_any_user(schema, user_id, cookie_value, db_error) ==
    LET parts == splitn2(cookie_value) IN
    /\ Len(parts) = 2
    /\ parse_uuid_ok(parts[1])
    /\ ~db_error
    /\ \E d \in trusted_devices :
          /\ d.schema = schema /\ d.id = parts[1][1]
          /\ d.expires_at > now
          /\ bcrypt_verify(parts[2], d.token_hash)

\* A device check that does not look at the expiry of the row.
validate_device_token_unexpiring(schema, user_id, cookie_value, db_error) ==
    LET parts == splitn2(cookie_value) IN
    /\ Len(parts) = 2
    /\ parse_uuid_ok(parts[1])
    /\ ~db_error
    /\ \E d \in trusted_devices :
          /\ d.schema = schema /\ d.id = parts[1][1] /\ d.user_id = user_id
          /\ bcrypt_verify(parts[2], d.token_hash)

\* validate_device_token: TRUE iff the cookie splits in two, its first part is
\* a uuid, a row with that id belongs to the user and is unexpired, and the
\* secret verifies against the stored hash.  A failed query counts as no row.
validate_device_token(schema, user_id, cookie_value, db_error) ==
    LET parts == splitn2(cookie_value) IN
    /\ Len(parts) = 2
    /\ parse_uuid_ok(parts[1])
    /\ ~db_error
    /\ \E d \in trusted_devices :
          /\ d.schema = schema /\ d.id = parts[1][1] /\ d.user_id = user_id
          /\ d.expires_at > now
          /\ bcrypt_verify(parts[2], d.token_hash)

\* A login that goes on to 2FA whether or not there is an email service.
RequireTwoFactorUnchecked(p, c) == Goto(p, [c EXCEPT !.pc = "l_invalidate"])

\* login, lines 140-142: without a trusted device 2FA is required, and 2FA
\* requires the email service.
RequireTwoFactor(p, c) ==
    IF email_svc
    THEN Goto(p, [c EXCEPT !.pc = "l_invalidate"])
    ELSE Return(p, c, "EmailServiceUnavailable")

\* ---------------------------------------------------------------- login

\* login, lines 62-90: schema check, user lookup, password check.
\* The variant of the credential check that tells an unknown or deactivated
\* address apart from a wrong password.
LoginCredentialsTelling(p, tenant, email, password, cookie) ==
    /\ Start(p)
    /\ UNCHANGED <<db, env, files, web, issued, hist>>
    /\ LET c == [Idle EXCEPT !.op = "login", !.tenant = tenant,
                             !.late = (cookie \in hist.devused)]
           found == ActiveByEmail(schema_name(tenant), email) IN
       IF schema_name(tenant) \notin schemas
       THEN Return(p, c, "TenantNotFound")
       ELSE IF found = {}
       THEN Return(p, [c EXCEPT !.email = email], "UserNotFound")
       ELSE IF \A u \in found : ~bcrypt_verify(password, u.password_hash)
       THEN Return(p, [c EXCEPT !.email = email], "InvalidCredentials")
       ELSE LET u == CHOOSE u \in found : TRUE
                cu == [c EXCEPT !.uid = u.id] IN
            IF cookie # NoCookie
            THEN Goto(p, [cu EXCEPT !.pc = "l_validate", !.cookie = cookie])
            ELSE RequireTwoFactor(p, cu)

\* A login that takes the account of the email without looking at the
\* password.
LoginCredentialsUnchecked(p, tenant, email, password, cookie) ==
    /\ Start(p)
    /\ UNCHANGED <<db, env, files, web, issued, hist>>
    /\ LET c == [Idle EXCEPT !.op = "login", !.tenant = tenant,
                             !.late = (cookie \in hist.devused)]
           found == ActiveByEmail(schema_name(tenant), email) IN
       IF schema_name(tenant) \notin schemas
       THEN Return(p, c, "TenantNotFound")
       ELSE IF found = {}
       THEN Return(p, [c EXCEPT !.email = email], "InvalidCredentials")
       ELSE LET u == CHOOSE u \in found : TRUE
                cu == [c EXCEPT !.uid = u.id] IN
            IF cookie # NoCookie
            THEN Goto(p, [cu EXCEPT !.pc = "l_validate", !.cookie = cookie])
            ELSE RequireTwoFactor(p, cu)

LoginCredentials(p, tenant, email, password, cookie) ==
    /\ Start(p)
    /\ UNCHANGED <<db, env, files, web, issued, hist>>
    /\ LET c == [Idle EXCEPT !.op = "login", !.tenant = tenant,
                             !.late = (cookie \in hist.devused)]
           found == ActiveByEmail(schema_name(tenant), email) IN
       IF schema_name(tenant) \notin schemas
       THEN Return(p, c, "TenantNotFound")
       ELSE IF \A u \in found : ~bcrypt_verify(password, u.password_hash)
       THEN Return(p, [c EXCEPT !.email = email], "InvalidCredentials")
       ELSE LET u == CHOOSE u \in found : TRUE
                cu == [c EXCEPT !.uid = u.id] IN
            IF cookie # NoCookie
            THEN Goto(p, [cu EXCEPT !.pc = "l_validate", !.cookie = cookie])
            ELSE RequireTwoFactor(p, cu)

\* login, lines 93-94: the trusted-device check.
LoginValidateDevice(p, db_error) ==
    /\ At(p, "login", "l_validate")
    /\ UNCHANGED <<db, env, files, web, issued, hist>>
    /\ IF validate_device_token(schema_name(call[p].tenant), call[p].uid,
                                call[p].cookie, db_error)
       THEN Goto(p, [call[p] EXCEPT !.pc = "l_refresh"])
       ELSE RequireTwoFactor(p, call[p])

\* login, lines 95-113: trusted device, tokens are minted and the refresh row stored.
LoginStoreRefresh(p) ==
    /\ At(p, "login", "l_refresh")
    /\ seq.rt < MaxRefresh
    /\ InsertRefresh(schema_name(call[p].tenant), call[p].uid)
    /\ Goto(p, [call[p] EXCEPT !.pc = "l_device",
                               !.new_rt = NewRefreshToken(call[p].uid)])
    /\ UNCHANGED <<users, two_factor_codes, trusted_devices, password_reset_tokens,
                   invitation_tokens, env, files, web, issued, hist>>

\* A trusted login that hands the browser its old cookie back.
LoginIssueDeviceKept(p) ==
    /\ At(p, "login", "l_device")
    /\ seq.dev < MaxDevices
    /\ ReturnDevice(p, call[p], "Authenticated", call[p].cookie)
    /\ issued' = [issued EXCEPT !.rt = @ \cup {call[p].new_rt}]
    /\ hist' = [hist EXCEPT !.devused = @ \cup {call[p].cookie}]
    /\ UNCHANGED <<db, env, files, web>>

\* login, lines 124-136: a fresh device token, then Authenticated.
LoginIssueDevice(p) ==
    /\ At(p, "login", "l_device")
    /\ seq.dev < MaxDevices
    /\ generate_device_token(schema_name(call[p].tenant), call[p].uid)
    /\ ReturnDevice(p, call[p], "Authenticated", NewDeviceCookie)
    /\ issued' = [issued EXCEPT !.rt = @ \cup {call[p].new_rt},
                                !.dev = @ \cup {NewDeviceCookie}]
    /\ hist' = [hist EXCEPT !.devused = @ \cup {call[p].cookie}]
    /\ UNCHANGED <<users, refresh_tokens, two_factor_codes, password_reset_tokens,
                   invitation_tokens, env, files, web>>

\* login, lines 144-151: earlier unused codes of the user are invalidated.
LoginInvalidateCodes(p) ==
    /\ At(p, "login", "l_invalidate")
    /\ two_factor_codes' =
          { IF c.schema = schema_name(call[p].tenant) /\ c.user_id = call[p].uid
               /\ ~c.used
            THEN [c EXCEPT !.used = TRUE] ELSE c : c \in two_factor_codes }
    /\ Goto(p, [call[p] EXCEPT !.pc = "l_code"])
    /\ UNCHANGED <<users, refresh_tokens, trusted_devices, password_reset_tokens,
                   seq, invitation_tokens, env, files, web, issued, hist>>

\* login, lines 153-167: a random 6-digit code is stored for 15 minutes.
LoginInsertCode(p, code) ==
    /\ At(p, "login", "l_code")
    /\ seq.code < MaxCodes
    /\ two_factor_codes' = two_factor_codes \cup
          { [schema |-> schema_name(call[p].tenant), id |-> seq.code + 1,
             user_id |-> call[p].uid, code |-> ToString(code),
             expires_at |-> now + TwoFactorTtl, used |-> FALSE, attempts |-> 0] }
    /\ seq' = [seq EXCEPT !.code = @ + 1]
    /\ Goto(p, [call[p] EXCEPT !.pc = "l_send", !.row = seq.code + 1])
    /\ UNCHANGED <<users, refresh_tokens, trusted_devices, password_reset_tokens,
                   invitation_tokens, env, files, web, issued, hist>>

\* login, lines 179-188: the code is mailed; a delivery failure is an error.
LoginSendCode(p, delivered) ==
    /\ At(p, "login", "l_send")
    /\ Return(p, call[p], IF delivered THEN "TwoFactorRequired" ELSE "EmailSendFailed")
    /\ UNCHANGED <<db, env, files, web, issued, hist>>


\* ----------------------------------------------------------- verify_2fa

\* The 2FA codes of a user that are unused, whatever their expiry.
UnusedCodes(schema, user_id) ==
    {c \in two_factor_codes : c.schema = schema /\ c.user_id = user_id /\ ~c.used}

\* SELECT id, code, attempts FROM two_factor_codes WHERE user_id = $1
\*   AND used = FALSE AND expires_at > NOW() ORDER BY created_at DESC LIMIT 1
\* (rows are created in the order of their ids)
ActiveCodes(schema, user_id) ==
    {c \in two_factor_codes :
        c.schema = schema /\ c.user_id = user_id /\ ~c.used /\ c.expires_at > now}

MostRecent(rows) == CHOOSE c \in rows : \A d \in rows : d.id <= c.id

\* verify_2fa, lines 268-279: the user lookup.
VerifyUser(p, tenant, email, code) ==
    /\ Start(p)
    /\ UNCHANGED <<db, env, files, web, issued, hist>>
    /\ LET c == [Idle EXCEPT !.op = "verify_2fa", !.tenant = tenant]
           found == ActiveByEmail(schema_name(tenant), email) IN
       IF found = {}
       THEN Return(p, c, "InvalidCredentials")
       ELSE Goto(p, [c EXCEPT !.pc = "v_fetch", !.code = code,
                              !.uid = (CHOOSE u \in found : TRUE).id])

\* A cap check that lets the attempt after the third through.
VerifyFetchCodeOffByOne(p) ==
    /\ At(p, "verify_2fa", "v_fetch")
    /\ UNCHANGED <<db, env, files, web, issued, hist>>
    /\ LET rows == ActiveCodes(schema_name(call[p].tenant), call[p].uid) IN
       IF rows = {}
       THEN Return(p, call[p], "CodeExpiredOrMissing")
       ELSE LET c == [call[p] EXCEPT !.row = MostRecent(rows).id,
                              !.late = hist.failed[MostRecent(rows).id] >= MaxAttempts] IN
            IF MostRecent(rows).attempts > MaxAttempts
            THEN Return(p, c, "TooManyAttempts")
            ELSE Goto(p, [c EXCEPT !.pc = "v_count"])

\* verify_2fa, lines 281-296: the active code is read and the cap checked.
VerifyFetchCode(p) ==
    /\ At(p, "verify_2fa", "v_fetch")
    /\ UNCHANGED <<db, env, files, web, issued, hist>>
    /\ LET rows == ActiveCodes(schema_name(call[p].tenant), call[p].uid) IN
       IF rows = {}
       THEN Return(p, call[p], "CodeExpiredOrMissing")
       ELSE LET c == [call[p] EXCEPT !.row = MostRecent(rows).id,
                              !.late = hist.failed[MostRecent(rows).id] >= MaxAttempts] IN
            IF MostRecent(rows).attempts >= MaxAttempts
            THEN Return(p, c, "TooManyAttempts")
            ELSE Goto(p, [c EXCEPT !.pc = "v_count"])

\* A verify_2fa that compares first and counts only the attempts that match.
VerifyCompareThenCount(p) ==
    /\ At(p, "verify_2fa", "v_count")
    /\ LET stored == CHOOSE c \in two_factor_codes :
                        c.schema = schema_name(call[p].tenant) /\ c.id = call[p].row IN
       IF call[p].code # stored.code
       THEN /\ Return(p, call[p], "InvalidCode")
            /\ hist' = [hist EXCEPT !.failed[call[p].row] = @ + 1]
            /\ UNCHANGED two_factor_codes
       ELSE /\ Goto(p, [call[p] EXCEPT !.pc = "v_used"])
            /\ two_factor_codes' =
                  { IF c.schema = schema_name(call[p].tenant) /\ c.id = call[p].row
                    THEN [c EXCEPT !.attempts = @ + 1] ELSE c : c \in two_factor_codes }
            /\ UNCHANGED hist
    /\ UNCHANGED <<users, refresh_tokens, trusted_devices, password_reset_tokens,
                   seq, invitation_tokens, env, files, web, issued>>

\* verify_2fa, lines 298-308: the attempt is counted, then the code compared.
VerifyCountAttempt(p) ==
    /\ At(p, "verify_2fa", "v_count")
    /\ two_factor_codes' =
          { IF c.schema = schema_name(call[p].tenant) /\ c.id = call[p].row
            THEN [c EXCEPT !.attempts = @ + 1] ELSE c : c \in two_factor_codes }
    /\ LET stored == CHOOSE c \in two_factor_codes :
                        c.schema = schema_name(call[p].tenant) /\ c.id = call[p].row IN
       IF call[p].code # stored.code
       THEN /\ Return(p, call[p], "InvalidCode")
            /\ hist' = [hist EXCEPT !.failed[call[p].row] = @ + 1]
       ELSE /\ Goto(p, [call[p] EXCEPT !.pc = "v_used"])
            /\ UNCHANGED hist
    /\ UNCHANGED <<users, refresh_tokens, trusted_devices, password_reset_tokens,
                   seq, invitation_tokens, env, files, web, issued>>

\* verify_2fa, lines 310-316: the code is marked used.
VerifyMarkUsed(p) ==
    /\ At(p, "verify_2fa", "v_used")
    /\ two_factor_codes' =
          { IF c.schema = schema_name(call[p].tenant) /\ c.id = call[p].row
            THEN [c EXCEPT !.used = TRUE] ELSE c : c \in two_factor_codes }
    /\ Goto(p, [call[p] EXCEPT !.pc = "v_refresh"])
    /\ UNCHANGED <<users, refresh_tokens, trusted_devices, password_reset_tokens,
                   seq, invitation_tokens, env, files, web, issued, hist>>

\* verify_2fa, lines 318-336: tokens are minted and the refresh row stored.
VerifyStoreRefresh(p) ==
    /\ At(p, "verify_2fa", "v_refresh")
    /\ seq.rt < MaxRefresh
    /\ InsertRefresh(schema_name(call[p].tenant), call[p].uid)
    /\ Goto(p, [call[p] EXCEPT !.pc = "v_device",
                               !.new_rt = NewRefreshToken(call[p].uid)])
    /\ UNCHANGED <<users, two_factor_codes, trusted_devices, password_reset_tokens,
                   invitation_tokens, env, files, web, issued, hist>>

\* verify_2fa, lines 347-360: a device token is stored and the pair returned.
VerifyIssueDevice(p) ==
    /\ At(p, "verify_2fa", "v_device")
    /\ seq.dev < MaxDevices
    /\ generate_device_token(schema_name(call[p].tenant), call[p].uid)
    /\ ReturnDevice(p, call[p], "Ok", NewDeviceCookie)
    /\ issued' = [issued EXCEPT !.rt = @ \cup {call[p].new_rt},
                                !.dev = @ \cup {NewDeviceCookie}]
    /\ hist' = [hist EXCEPT !.consumed[call[p].row] = @ + 1]
    /\ UNCHANGED <<users, refresh_tokens, two_factor_codes, password_reset_tokens,
                   invitation_tokens, env, files, web>>

\* -------------------------------------------------------------- refresh

\* The refresh tokens a client can present: those a response has returned,
\* and one signed with another key.
ForgedToken == [sub |-> "u1", jti |-> 1, exp |-> RefreshTtlDays * UnitsPerDay,
                sig |-> "attacker_secret"]
TokenInputs == issued.rt \cup {ForgedToken}

\* A refresh that looks the row up by its id in every schema.
RefreshFetchAnySchema(p, tenant, token) ==
    /\ Start(p)
    /\ UNCHANGED <<db, env, files, web, issued, hist>>
    /\ LET c == [Idle EXCEPT !.op = "refresh", !.tenant = tenant, !.token = token,
                             !.late = hist.rotated[token.jti] > 0,
                             !.stale = (token.jti \in hist.superseded)]
           stored == {r \in refresh_tokens : r.id = token.jti /\ ~r.revoked} IN
       IF ~decode_ok(token, RefreshSecret, now)
       THEN Return(p, c, "InvalidToken")
       ELSE IF schema_name(tenant) \notin schemas
       THEN Return(p, c, "DbError")
       ELSE IF stored = {}
       THEN Return(p, c, "TokenRevokedOrUnknown")
       ELSE IF \E r \in stored : r.expires_at < now
       THEN Return(p, c, "TokenExpired")
       ELSE IF \E r \in stored : ~bcrypt_verify(JwtPrefix72(token), r.token_hash)
       THEN Return(p, c, "TokenMismatch")
       ELSE Goto(p, [c EXCEPT !.pc = "r_revoke", !.uid = token.sub])

\* A refresh that looks the row up before it checks the signature.
RefreshFetchRowFirst(p, tenant, token) ==
    /\ Start(p)
    /\ UNCHANGED <<db, env, files, web, issued, hist>>
    /\ LET c == [Idle EXCEPT !.op = "refresh", !.tenant = tenant, !.token = token,
                             !.late = hist.rotated[token.jti] > 0,
                             !.stale = (token.jti \in hist.superseded)]
           stored == {r \in refresh_tokens : r.schema = schema_name(tenant)
                                              /\ r.id = token.jti /\ ~r.revoked} IN
       IF schema_name(tenant) \notin schemas
       THEN Return(p, c, "DbError")
       ELSE IF stored = {}
       THEN Return(p, c, "TokenRevokedOrUnknown")
       ELSE IF ~decode_ok(token, RefreshSecret, now)
       THEN Return(p, c, "InvalidToken")
       ELSE IF \E r \in stored : r.expires_at < now
       THEN Return(p, c, "TokenExpired")
       ELSE IF \E r \in stored : ~bcrypt_verify(JwtPrefix72(token), r.token_hash)
       THEN Return(p, c, "TokenMismatch")
       ELSE Goto(p, [c EXCEPT !.pc = "r_revoke", !.uid = token.sub])

\* refresh, lines 429-455: decode, fetch the stored row, check expiry and hash.
\* The SELECT fails if the tenant has no schema.
RefreshFetch(p, tenant, token) ==
    /\ Start(p)
    /\ UNCHANGED <<db, env, files, web, issued, hist>>
    /\ LET c == [Idle EXCEPT !.op = "refresh", !.tenant = tenant, !.token = token,
                             !.late = hist.rotated[token.jti] > 0,
                             !.stale = (token.jti \in hist.superseded)]
           stored == {r \in refresh_tokens : r.schema = schema_name(tenant)
                                              /\ r.id = token.jti /\ ~r.revoked} IN
       IF ~decode_ok(token, RefreshSecret, now)
       THEN Return(p, c, "InvalidToken")
       ELSE IF schema_name(tenant) \notin schemas
       THEN Return(p, c, "DbError")
       ELSE IF stored = {}
       THEN Return(p, c, "TokenRevokedOrUnknown")
       ELSE IF \E r \in stored : r.expires_at < now
       THEN Return(p, c, "TokenExpired")
       ELSE IF \E r \in stored : ~bcrypt_verify(JwtPrefix72(token), r.token_hash)
       THEN Return(p, c, "TokenMismatch")
       ELSE Goto(p, [c EXCEPT !.pc = "r_revoke", !.uid = token.sub])

\* A refresh that rotates without revoking the presented token.
RefreshRevokeSkipped(p) ==
    /\ At(p, "refresh", "r_revoke")
    /\ Goto(p, [call[p] EXCEPT !.pc = "r_user"])
    /\ UNCHANGED <<db, env, files, web, issued, hist>>

\* refresh, lines 457-463: UPDATE refresh_tokens SET revoked = TRUE WHERE id = $1
RefreshRevoke(p) ==
    /\ At(p, "refresh", "r_revoke")
    /\ refresh_tokens' =
          { IF r.schema = schema_name(call[p].tenant) /\ r.id = call[p].token.jti
            THEN [r EXCEPT !.revoked = TRUE] ELSE r : r \in refresh_tokens }
    /\ Goto(p, [call[p] EXCEPT !.pc = "r_user"])
    /\ UNCHANGED <<users, two_factor_codes, trusted_devices, password_reset_tokens,
                   seq, invitation_tokens, env, files, web, issued, hist>>

\* A refresh that looks the user up whether active or not.
RefreshFetchUserAny(p) ==
    /\ At(p, "refresh", "r_user")
    /\ UNCHANGED <<db, env, files, web, issued, hist>>
    /\ IF {u \in users : u.schema = schema_name(call[p].tenant) /\ u.id = call[p].uid} = {}
       THEN Return(p, call[p], "RowNotFound")
       ELSE Goto(p, [call[p] EXCEPT !.pc = "r_insert"])

\* refresh, lines 465-474: the user must still exist and be active.
RefreshFetchUser(p) ==
    /\ At(p, "refresh", "r_user")
    /\ UNCHANGED <<db, env, files, web, issued, hist>>
    /\ IF ActiveById(schema_name(call[p].tenant), call[p].uid) = {}
       THEN Return(p, call[p], "RowNotFound")
       ELSE Goto(p, [call[p] EXCEPT !.pc = "r_insert"])

\* refresh, lines 476-508: the new pair is minted, stored and returned.
RefreshStoreNew(p) ==
    /\ At(p, "refresh", "r_insert")
    /\ seq.rt < MaxRefresh
    /\ InsertRefresh(schema_name(call[p].tenant), call[p].uid)
    /\ Return(p, [call[p] EXCEPT !.new_rt = NewRefreshToken(call[p].uid)], "Ok")
    /\ issued' = [issued EXCEPT !.rt = @ \cup {NewRefreshToken(call[p].uid)}]
    /\ hist' = [hist EXCEPT !.rotated[call[p].token.jti] = @ + 1]
    /\ UNCHANGED <<users, two_factor_codes, trusted_devices, password_reset_tokens,
                   invitation_tokens, env, files, web>>

\* --------------------------------------------------------------- logout

\* revoke_device_token, lines 242-255: DELETE FROM trusted_devices WHERE id = $1
\* if the cookie splits in two and its first part is a uuid; errors are ignored.
revoke_device_token(schema, cookie_value) ==
    LET parts == splitn2(cookie_value) IN
    IF Len(parts) = 2 /\ parse_uuid_ok(parts[1])
    THEN {d \in trusted_devices : ~(d.schema = schema /\ d.id = parts[1][1])}
    ELSE trusted_devices

\* Refresh tokens signed by the server that are no session now: one whose exp
\* has passed, one whose row is gone.
ExpiredToken == generate_refresh_token("u1", RefreshSecret, RefreshTtlDays, 1,
                                       0 - RefreshTtlDays * UnitsPerDay - 1)
UnknownToken == generate_refresh_token("u1", RefreshSecret, RefreshTtlDays,
                                       MaxRefresh + 1, 0)
LogoutTokenInputs == issued.rt \cup {ForgedToken, ExpiredToken, UnknownToken}

\* A logout that propagates the decoding error of the refresh token.
LogoutRevokeStrict(p, tenant, token, cookie) ==
    /\ Start(p)
    /\ UNCHANGED <<users, two_factor_codes, password_reset_tokens, seq,
                   invitation_tokens, env, files, web,
                   issued, hist>>
    /\ LET c == [Idle EXCEPT !.op = "logout", !.tenant = tenant, !.token = token,
                             !.cookie = cookie] IN
       IF ~decode_ok(token, RefreshSecret, now)
       THEN /\ Return(p, c, "InvalidToken")
            /\ UNCHANGED <<refresh_tokens, trusted_devices>>
       ELSE IF schema_name(tenant) \notin schemas
       THEN /\ Return(p, c, "DbError")
            /\ UNCHANGED <<refresh_tokens, trusted_devices>>
       ELSE /\ refresh_tokens' =
                  { IF r.schema = schema_name(tenant) /\ r.id = token.jti
                    THEN [r EXCEPT !.revoked = TRUE] ELSE r : r \in refresh_tokens }
            /\ UNCHANGED trusted_devices
            /\ IF cookie = NoCookie
               THEN Return(p, c, "Ok")
               ELSE Goto(p, [c EXCEPT !.pc = "o_device"])

\* logout, lines 512-534: if the token decodes, UPDATE refresh_tokens SET
\* revoked = TRUE WHERE id = jti, whose error is returned; a token that does
\* not decode is skipped, and then the device row is the first statement.
LogoutRevoke(p, tenant, token, cookie) ==
    /\ Start(p)
    /\ UNCHANGED <<users, two_factor_codes, password_reset_tokens, seq,
                   invitation_tokens, env, files, web,
                   issued, hist>>
    /\ LET c == [Idle EXCEPT !.op = "logout", !.tenant = tenant, !.token = token,
                             !.cookie = cookie] IN
       IF ~decode_ok(token, RefreshSecret, now)
       THEN /\ Return(p, c, "Ok")
            /\ UNCHANGED refresh_tokens
            /\ trusted_devices' = IF schema_name(tenant) \in schemas
                                  THEN revoke_device_token(schema_name(tenant), cookie)
                                  ELSE trusted_devices
       ELSE IF schema_name(tenant) \notin schemas
       THEN /\ Return(p, c, "DbError")
            /\ UNCHANGED <<refresh_tokens, trusted_devices>>
       ELSE /\ refresh_tokens' =
                  { IF r.schema = schema_name(tenant) /\ r.id = token.jti
                    THEN [r EXCEPT !.revoked = TRUE] ELSE r : r \in refresh_tokens }
            /\ UNCHANGED trusted_devices
            /\ IF cookie = NoCookie
               THEN Return(p, c, "Ok")
               ELSE Goto(p, [c EXCEPT !.pc = "o_device"])

\* A logout that leaves the trusted device of the cookie in place.
LogoutDeviceKept(p) ==
    /\ At(p, "logout", "o_device")
    /\ Return(p, call[p], "Ok")
    /\ UNCHANGED <<db, env, files, web, issued, hist>>

\* logout, lines 536-541: the device row of the cookie is deleted, best effort.
LogoutDevice(p) ==
    /\ At(p, "logout", "o_device")
    /\ trusted_devices' = revoke_device_token(schema_name(call[p].tenant), call[p].cookie)
    /\ Return(p, call[p], "Ok")
    /\ UNCHANGED <<users, refresh_tokens, two_factor_codes, password_reset_tokens,
                   seq, invitation_tokens, env, files, web, issued, hist>>

\* ------------------------------------------------------ password changes

\* The refresh tokens of a user that refresh would accept now.
ValidTokens(schema, user_id) ==
    {r.id : r \in {x \in refresh_tokens : x.schema = schema /\ x.user_id = user_id
                                           /\ ~x.revoked /\ x.expires_at >= now}}

\* A revocation that reaches only the newest token of the user.
RevokeNewestOf(schema, user_id) ==
    { IF r.schema = schema /\ r.user_id = user_id
         /\ \A x \in refresh_tokens : x.user_id = user_id => x.id <= r.id
      THEN [r EXCEPT !.revoked = TRUE] ELSE r : r \in refresh_tokens }

\* UPDATE {schema}.refresh_tokens SET revoked = TRUE WHERE user_id = $1
\* (change_password 900-905, reset_password 690-695, admin reset 805-810)
RevokeAllOf(schema, user_id) ==
    { IF r.schema = schema /\ r.user_id = user_id
      THEN [r EXCEPT !.revoked = TRUE] ELSE r : r \in refresh_tokens }

\* UPDATE {schema}.users SET password_hash = $1, force_password_change = $f WHERE id = $2
SetPassword(schema, user_id, password, force) ==
    { IF u.schema = schema /\ u.id = user_id
      THEN [u EXCEPT !.password_hash = bcrypt_hash(password),
                     !.force_password_change = force]
      ELSE u : u \in users }

\* A change_password that stores the new hash before it looks at the
\* current password.
ChangePasswordCheckLate(p, user_id, current_password, new_password) ==
    /\ Start(p)
    /\ UNCHANGED <<refresh_tokens, two_factor_codes, trusted_devices,
                   password_reset_tokens, seq, invitation_tokens, env, files, web, issued, hist>>
    /\ users' = SetPassword(Schema, user_id, new_password, FALSE)
    /\ LET c == [Idle EXCEPT !.op = "change_password", !.uid = user_id,
                             !.password = new_password,
                             !.pre = ValidTokens(Schema, user_id)]
           found == ActiveById(Schema, user_id) IN
       IF found = {}
       THEN Return(p, c, "UserNotFound")
       ELSE IF \E u \in found : ~bcrypt_verify(current_password, u.password_hash)
       THEN Return(p, c, "WrongPassword")
       ELSE Goto(p, [c EXCEPT !.pc = "c_update"])

\* change_password, lines 873-887: the current password is checked.
ChangePasswordCheck(p, user_id, current_password, new_password) ==
    /\ Start(p)
    /\ UNCHANGED <<db, env, files, web, issued, hist>>
    /\ LET c == [Idle EXCEPT !.op = "change_password", !.uid = user_id,
                             !.password = new_password,
                             !.pre = ValidTokens(Schema, user_id)]
           found == ActiveById(Schema, user_id) IN
       IF found = {}
       THEN Return(p, c, "UserNotFound")
       ELSE IF \E u \in found : ~bcrypt_verify(current_password, u.password_hash)
       THEN Return(p, c, "WrongPassword")
       ELSE Goto(p, [c EXCEPT !.pc = "c_update"])

\* change_password, lines 889-897: the new hash is stored.
ChangePasswordUpdate(p) ==
    /\ At(p, "change_password", "c_update")
    /\ users' = SetPassword(schema_name(call[p].tenant), call[p].uid,
                            call[p].password, FALSE)
    /\ Goto(p, [call[p] EXCEPT !.pc = "c_revoke"])
    /\ UNCHANGED <<refresh_tokens, two_factor_codes, trusted_devices,
                   password_reset_tokens, seq, invitation_tokens, env, files, web, issued, hist>>

\* change_password, lines 899-907: every refresh token of the user is revoked.
ChangePasswordRevoke(p) ==
    /\ At(p, "change_password", "c_revoke")
    /\ refresh_tokens' = RevokeAllOf(schema_name(call[p].tenant), call[p].uid)
    /\ Return(p, call[p], "Ok")
    /\ hist' = [hist EXCEPT !.superseded = @ \cup call[p].pre]
    /\ UNCHANGED <<users, two_factor_codes, trusted_devices, password_reset_tokens,
                   seq, invitation_tokens, env, files, web, issued>>

\* The 48 random characters of a reset token: the n-th row has its own.
reset_secret(n) == 200 + n
\* The tokens a client can present: those mailed, and one no row has.
ResetInputs == issued.reset \cup {0}

\* A reset request that tells the caller when no account has the email.
RequestResetUserTelling(p, email) ==
    /\ Start(p)
    /\ UNCHANGED <<db, env, files, web, issued, hist>>
    /\ LET c == [Idle EXCEPT !.op = "request_password_reset"]
           found == ActiveByEmail(Schema, email) IN
       IF found = {}
       THEN Return(p, c, "UserNotFound")
       ELSE Goto(p, [c EXCEPT !.pc = "q_insert",
                              !.uid = (CHOOSE u \in found : TRUE).id])

\* request_password_reset, lines 609-617: unknown emails get the same Ok.
RequestResetUser(p, email) ==
    /\ Start(p)
    /\ UNCHANGED <<db, env, files, web, issued, hist>>
    /\ LET c == [Idle EXCEPT !.op = "request_password_reset"]
           found == ActiveByEmail(Schema, email) IN
       IF found = {}
       THEN Return(p, c, "Ok")
       ELSE Goto(p, [c EXCEPT !.pc = "q_insert",
                              !.uid = (CHOOSE u \in found : TRUE).id])

\* INSERT INTO {schema}.password_reset_tokens (user_id, token, expires_at)
InsertReset(schema, user_id) ==
    /\ password_reset_tokens' = password_reset_tokens \cup
          { [schema |-> schema, id |-> seq.reset + 1, user_id |-> user_id,
             token |-> reset_secret(seq.reset + 1),
             expires_at |-> now + ResetTtl, used |-> FALSE] }
    /\ seq' = [seq EXCEPT !.reset = @ + 1]

\* request_password_reset, lines 618-657: a one-hour token is stored and mailed
\* if there is an email service; send errors are ignored.
RequestResetInsert(p, delivered) ==
    /\ At(p, "request_password_reset", "q_insert")
    /\ seq.reset < MaxResets
    /\ InsertReset(schema_name(call[p].tenant), call[p].uid)
    /\ Return(p, call[p], "Ok")
    /\ issued' = IF email_svc /\ delivered
                 THEN [issued EXCEPT !.reset = @ \cup {reset_secret(seq.reset + 1)}]
                 ELSE issued
    /\ UNCHANGED <<users, refresh_tokens, two_factor_codes, trusted_devices,
                   invitation_tokens, env, files, web, hist>>

\* reset_password, lines 669-678: the token must be unused and unexpired.
ResetFetch(p, token_str, new_password) ==
    /\ Start(p)
    /\ UNCHANGED <<db, env, files, web, issued, hist>>
    /\ LET c == [Idle EXCEPT !.op = "reset_password", !.password = new_password,
                    !.late = \E t \in password_reset_tokens :
                                /\ t.token = token_str
                                /\ (hist.redeemed[t.id] > 0 \/ t.expires_at <= now)]
           rows == {t \in password_reset_tokens :
                       t.schema = Schema /\ t.token = token_str /\ ~t.used
                       /\ t.expires_at > now} IN
       IF rows = {}
       THEN Return(p, c, "InvalidResetToken")
       ELSE LET t == CHOOSE t \in rows : TRUE IN
            Goto(p, [c EXCEPT !.pc = "s_update", !.row = t.id, !.uid = t.user_id,
                              !.pre = ValidTokens(Schema, t.user_id)])

\* reset_password, lines 680-688: the new hash is stored.
ResetUpdate(p) ==
    /\ At(p, "reset_password", "s_update")
    /\ users' = SetPassword(schema_name(call[p].tenant), call[p].uid,
                            call[p].password, FALSE)
    /\ Goto(p, [call[p] EXCEPT !.pc = "s_revoke"])
    /\ UNCHANGED <<refresh_tokens, two_factor_codes, trusted_devices,
                   password_reset_tokens, seq, invitation_tokens, env, files, web, issued, hist>>

\* reset_password, lines 690-695: every refresh token of the user is revoked.
ResetRevoke(p) ==
    /\ At(p, "reset_password", "s_revoke")
    /\ refresh_tokens' = RevokeAllOf(schema_name(call[p].tenant), call[p].uid)
    /\ Goto(p, [call[p] EXCEPT !.pc = "s_used"])
    /\ UNCHANGED <<users, two_factor_codes, trusted_devices, password_reset_tokens,
                   seq, invitation_tokens, env, files, web, issued, hist>>

\* reset_password, lines 697-704: the reset token is marked used.
ResetMarkUsed(p) ==
    /\ At(p, "reset_password", "s_used")
    /\ password_reset_tokens' =
          { IF t.schema = schema_name(call[p].tenant) /\ t.id = call[p].row
            THEN [t EXCEPT !.used = TRUE] ELSE t : t \in password_reset_tokens }
    /\ Return(p, call[p], "Ok")
    /\ hist' = [hist EXCEPT !.superseded = @ \cup call[p].pre,
                            !.redeemed[call[p].row] = @ + 1]
    /\ UNCHANGED <<users, refresh_tokens, two_factor_codes, trusted_devices,
                   seq, invitation_tokens, env, files, web, issued>>

\* reset_user_password_as_admin, lines 775-783: the target must be active.
AdminResetUser(p, target_user_id, method) ==
    /\ Start(p)
    /\ UNCHANGED <<db, env, files, web, issued, hist>>
    /\ LET c == [Idle EXCEPT !.op = "reset_user_password_as_admin",
                             !.uid = target_user_id,
                             !.pre = ValidTokens(Schema, target_user_id)] IN
       IF ActiveById(Schema, target_user_id) = {}
       THEN Return(p, c, "UserNotFound")
       ELSE IF method = "temp_password"
       THEN Goto(p, [c EXCEPT !.pc = "a_update", !.password = TempPassword])
       ELSE Goto(p, [c EXCEPT !.pc = "a_insert"])

\* admin reset, lines 794-802: the temporary password is stored and must be changed.
AdminResetUpdate(p) ==
    /\ At(p, "reset_user_password_as_admin", "a_update")
    /\ users' = SetPassword(schema_name(call[p].tenant), call[p].uid,
                            call[p].password, TRUE)
    /\ Goto(p, [call[p] EXCEPT !.pc = "a_revoke"])
    /\ UNCHANGED <<refresh_tokens, two_factor_codes, trusted_devices,
                   password_reset_tokens, seq, invitation_tokens, env, files, web, issued, hist>>

\* admin reset, lines 804-815: every refresh token of the target is revoked.
AdminResetRevoke(p) ==
    /\ At(p, "reset_user_password_as_admin", "a_revoke")
    /\ refresh_tokens' = RevokeAllOf(schema_name(call[p].tenant), call[p].uid)
    /\ Return(p, call[p], "TempPassword")
    /\ hist' = [hist EXCEPT !.superseded = @ \cup call[p].pre]
    /\ UNCHANGED <<users, two_factor_codes, trusted_devices, password_reset_tokens,
                   seq, invitation_tokens, env, files, web, issued>>

\* admin reset, lines 816-860: the email method stores and mails a reset token.
AdminResetInsert(p, delivered) ==
    /\ At(p, "reset_user_password_as_admin", "a_insert")
    /\ seq.reset < MaxResets
    /\ InsertReset(schema_name(call[p].tenant), call[p].uid)
    /\ Return(p, call[p], "ResetEmail")
    /\ issued' = IF email_svc /\ delivered
                 THEN [issued EXCEPT !.reset = @ \cup {reset_secret(seq.reset + 1)}]
                 ELSE issued
    /\ UNCHANGED <<users, refresh_tokens, two_factor_codes, trusted_devices,
                   invitation_tokens, env, files, web, hist>>

\* ---------------------------------------------------------- update_email

\* update_email, lines 920-944: the password is checked.
UpdateEmailCheck(p, user_id, new_email, password) ==
    /\ Start(p)
    /\ UNCHANGED <<db, env, files, web, issued, hist>>
    /\ LET c == [Idle EXCEPT !.op = "update_email", !.uid = user_id,
                             !.email = new_email,
                             !.pre = ValidTokens(Schema, user_id)]
           found == ActiveById(Schema, user_id) IN
       IF found = {}
       THEN Return(p, c, "UserNotFound")
       ELSE IF \E u \in found : ~bcrypt_verify(password, u.password_hash)
       THEN Return(p, c, "WrongPassword")
       ELSE Goto(p, [c EXCEPT !.pc = "e_exists"])

\* update_email, lines 946-957: SELECT EXISTS(.. WHERE email = $1 AND id != $2)
UpdateEmailExists(p) ==
    /\ At(p, "update_email", "e_exists")
    /\ UNCHANGED <<db, env, files, web, issued, hist>>
    /\ IF \E u \in users : u.schema = schema_name(call[p].tenant)
                            /\ u.email = call[p].email /\ u.id # call[p].uid
       THEN Return(p, call[p], "EmailInUse")
       ELSE Goto(p, [call[p] EXCEPT !.pc = "e_update"])

\* update_email, lines 959-968: UPDATE users SET email = $1 WHERE id = $2, and
\* nothing else; the UNIQUE constraint on users.email (db/tenant.rs) fails the
\* statement if another row took the address meanwhile.
UpdateEmailStore(p) ==
    /\ At(p, "update_email", "e_update")
    /\ IF \E u \in users : u.schema = schema_name(call[p].tenant)
                            /\ u.email = call[p].email /\ u.id # call[p].uid
       THEN /\ Return(p, call[p], "DbError")
            /\ UNCHANGED users
       ELSE /\ Return(p, call[p], "Ok")
            /\ users' = { IF u.schema = schema_name(call[p].tenant) /\ u.id = call[p].uid
                          THEN [u EXCEPT !.email = call[p].email] ELSE u : u \in users }
    /\ UNCHANGED <<refresh_tokens, two_factor_codes, trusted_devices,
                   password_reset_tokens, seq, invitation_tokens, env, files, web, issued, hist>>

\* ---------------------------------------------------------- deactivation

\* deactivate_garderie_user (routes/tenants.rs 280-295), and the soft branch
\* of deactivate_user: UPDATE {schema}.users SET is_active = FALSE WHERE id = $1,
\* one statement, which touches no token table.
DeactivateUser(user_id) ==
    /\ \E u \in users : u.schema = Schema /\ u.id = user_id /\ u.is_active
    /\ users' = { IF u.schema = Schema /\ u.id = user_id
                  THEN [u EXCEPT !.is_active = FALSE] ELSE u : u \in users }
    /\ ret' = NoRet
    /\ UNCHANGED <<refresh_tokens, two_factor_codes, trusted_devices,
                   password_reset_tokens, invitation_tokens, seq, env, files, web,
                   call, issued, hist>>

\* ------------------------------------------------- tenants and requests

\* Text is a sequence of ASCII codes.
Hyphen     == 45
Underscore == 95

\* str::to_lowercase on ASCII text.
to_lowercase(s) == [i \in 1..Len(s) |-> IF s[i] \in 65..90 THEN s[i] + 32 ELSE s[i]]

\* is_valid_slug, middleware/tenant.rs 17-24.
is_valid_slug(s) ==
    /\ Len(s) >= 2
    /\ Len(s) <= 63
    /\ \A i \in 1..Len(s) : s[i] \in 97..122 \/ s[i] \in 48..57 \/ s[i] = Hyphen
    /\ s[1] # Hyphen
    /\ s[Len(s)] # Hyphen

\* str::replace(from, to) with a one-character pattern.
replace(s, from, to) ==
    LET RECURSIVE go(_)
        go(i) == IF i > Len(s) THEN <<>>
                 ELSE (IF s[i] = from THEN to ELSE <<s[i]>>) \o go(i + 1)
    IN go(1)

GarderiePrefix == <<103, 97, 114, 100, 101, 114, 105, 101, 95>>     \* "garderie_"

\* The variant of schema_name that drops the hyphens of the slug.
schema_name_unhyphenated(slug) ==
    GarderiePrefix \o replace(to_lowercase(slug), Hyphen, <<>>)

\* db/tenant.rs 601-603, character by character:
\* format!("garderie_{}", slug.to_lowercase().replace('-', "_")).
schema_name_text(slug) ==
    GarderiePrefix \o replace(to_lowercase(slug), Hyphen, <<Underscore>>)

\* A call of schema_name; the results of two calls are kept.
SchemaName(slug) ==
    /\ Cardinality(named) < MaxNamed
    /\ named' = named \cup {[slug |-> slug, schema |-> schema_name_text(slug)]}
    /\ UNCHANGED <<db, env, files, call, ret, issued, hist, http, redis, rate>>

\* The slugs schema_name is asked about: every text of up to MaxSlugLen
\* characters among a, 1, -, _ and A, and texts of 63 and 64 characters.
SlugAlphabet == {97, 49, Hyphen, Underscore, 65}
SlugInputs ==
    UNION {[1..n -> SlugAlphabet] : n \in 0..MaxSlugLen}
        \cup {[i \in 1..63 |-> 97], [i \in 1..64 |-> 97]}

\* str::split(sep): the pieces of s between the occurrences of sep.
split(s, sep) ==
    LET RECURSIVE go(_, _)
        go(i, piece) ==
            IF i > Len(s) THEN <<piece>>
            ELSE IF s[i] = sep THEN <<piece>> \o go(i + 1, <<>>)
            ELSE go(i + 1, Append(piece, s[i]))
    IN go(1, <<>>)

\* A header the request does not carry (or whose value is not visible ASCII:
\* to_str() fails and the header is treated as missing).
Absent == <<0>>

AcmeSlug == <<97, 99, 109, 101>>      \* "acme"
BetaSlug == <<98, 101, 116, 97>>      \* "beta"
OldSlug  == <<111, 108, 100>>      \* "old", a deactivated tenant
Www      == <<119, 119, 119>>     \* "www"
Api      == <<97, 112, 105>>      \* "api"

\* public.garderies: slug, is_active, trial over.
garderies == { [slug |-> AcmeSlug, is_active |-> TRUE,  trial_over |-> FALSE],
               [slug |-> BetaSlug, is_active |-> TRUE,  trial_over |-> FALSE],
               [slug |-> OldSlug,  is_active |-> FALSE, trial_over |-> FALSE] }

JwtSecret   == "jwt_secret"
AccessTtl   == 1            \* Config::jwt_expiry_seconds default, 900 s

\* generate_access_token_with_role: Claims {sub, tenant, role, iat, exp}.
generate_access_token(user_id, role, tenant, secret, ttl, t) ==
    [sub |-> user_id, tenant |-> tenant, role |-> role, exp |-> t + ttl, sig |-> secret]

\* decode_access_token, middleware/auth.rs 58-71: signature, then exp.
decode_access_token(tok, secret, t) == tok.sig = secret /\ tok.exp >= t

\* extract_slug, middleware/tenant.rs 61-92.
extract_slug(req) ==
    LET tenant == to_lowercase(req.x_tenant)
        domain == split(req.host, 58)[1]
        parts_vec == split(domain, 46)
        subdomain == to_lowercase(parts_vec[1]) IN
    IF req.x_tenant # Absent /\ tenant # <<>>
    THEN IF is_valid_slug(tenant) THEN [result |-> "Ok", value |-> tenant]
         ELSE [result |-> "BadRequest", value |-> <<>>]
    ELSE IF req.host # Absent /\ Len(parts_vec) >= 3 /\ subdomain # Www /\ subdomain # Api
    THEN IF is_valid_slug(subdomain) THEN [result |-> "Ok", value |-> subdomain]
         ELSE [result |-> "BadRequest", value |-> <<>>]
    ELSE [result |-> "BadRequest", value |-> <<>>]

\* TenantSlug::from_request_parts, middleware/tenant.rs 31-58.
tenant_slug(req) ==
    LET slug == extract_slug(req)
        row == {g \in garderies : g.slug = slug.value} IN
    IF slug.result # "Ok" THEN slug
    ELSE IF row = {} THEN [result |-> "NotFound", value |-> <<>>]
    ELSE IF \E g \in row : ~g.is_active THEN [result |-> "Forbidden", value |-> <<>>]
    ELSE IF \E g \in row : g.trial_over THEN [result |-> "PaymentRequired", value |-> <<>>]
    ELSE slug

NoAccess == [sub |-> NoUser, tenant |-> <<>>, role |-> "none", exp |-> 0, sig |-> "none"]
NoBearer == [scheme |-> "none", token |-> NoAccess]

\* AuthenticatedUser::from_request_parts, middleware/auth.rs 16-51.
authenticated_user(req, t) ==
    LET user == req.authorization.token IN
    IF req.authorization = NoBearer
    THEN [result |-> "Unauthorized", user |-> NoAccess]
    ELSE IF req.authorization.scheme # "Bearer"
    THEN [result |-> "Unauthorized", user |-> NoAccess]
    ELSE IF ~decode_access_token(user, JwtSecret, t)
    THEN [result |-> "Unauthorized", user |-> NoAccess]
    ELSE IF user.role # "super_admin" /\ req.x_tenant # Absent
            /\ user.tenant # to_lowercase(req.x_tenant)
    THEN [result |-> "Forbidden", user |-> NoAccess]
    ELSE [result |-> "Ok", user |-> user]

\* The requests a client can send.  X-Tenant: none, "acme", "beta", "ACME",
\* "" and "a_b".  Host: none, "acme.example.com", "beta.example.com:8080",
\* "BETA.example.com", "www.example.com", "old.example.com", "example.com".
\* Authorization: none, Basic, and Bearer with the token of a parent of
\* either tenant, of a super-admin, and one signed with another key.
XTenantInputs == {Absent, AcmeSlug, BetaSlug, <<65, 67, 77, 69>>, <<>>, <<97, 95, 98>>}
HostInputs ==
    {Absent,
     <<97, 99, 109, 101, 46, 101, 120, 97, 109, 112, 108, 101, 46, 99, 111, 109>>,
     <<98, 101, 116, 97, 46, 101, 120, 97, 109, 112, 108, 101, 46, 99, 111, 109, 58, 56, 48, 56, 48>>,
     <<66, 69, 84, 65, 46, 101, 120, 97, 109, 112, 108, 101, 46, 99, 111, 109>>,
     <<119, 119, 119, 46, 101, 120, 97, 109, 112, 108, 101, 46, 99, 111, 109>>,
     <<111, 108, 100, 46, 101, 120, 97, 109, 112, 108, 101, 46, 99, 111, 109>>,
     <<101, 120, 97, 109, 112, 108, 101, 46, 99, 111, 109>>}
AccessInputs ==
    {generate_access_token("u1", "parent", AcmeSlug, JwtSecret, AccessTtl, 0),
     generate_access_token("v1", "parent", BetaSlug, JwtSecret, AccessTtl, 0),
     generate_access_token("s1", "super_admin", AcmeSlug, JwtSecret, AccessTtl, 0),
     generate_access_token("u1", "parent", BetaSlug, "attacker_secret", AccessTtl, 0)}
AuthorizationInputs ==
    {NoBearer} \cup {[scheme |-> "Basic", token |-> NoAccess]}
               \cup {[scheme |-> "Bearer", token |-> a] : a \in AccessInputs}

\* A handler that takes TenantSlug and AuthenticatedUser: both extractors run
\* on the request before the handler does.
HandleRequest(x_tenant, host, authorization) ==
    /\ LET req == [x_tenant |-> x_tenant, host |-> host,
                   authorization |-> authorization] IN
       http' = [op |-> "request", req |-> req,
                tenant |-> tenant_slug(req),
                user |-> authenticated_user(req, now)]
    /\ UNCHANGED <<db, env, files, call, ret, issued, hist, named, redis, rate>>

\* ----------------------------------------------------------- rate limit

LoginAttempts == 5     \* routes/auth.rs 67: check_rate_limit(.., 5, 900)
LoginWindow   == 3     \* 900 s; the redis clock is counted in steps of 300 s

\* The answer of check_rate_limit for a counter value, lines 31-38.
rate_answer(count, max_attempts) ==
    IF count > max_attempts THEN "TooManyRequests" ELSE "Ok"

\* check_rate_limit, lines 16-20: INCR, atomic in redis; a command that
\* fails counts as 0 (unwrap_or).  The call goes on to EXPIRE when it made
\* the first increment (line 22), and answers otherwise (31-38).
RateIncr(p, key, ok) ==
    /\ Start(p)
    /\ redis[key].count < MaxCount
    /\ ~ok => rate[key].errors < MaxRedisErrors
    /\ LET count == IF ok THEN redis[key].count + 1 ELSE 0
           c == [Idle EXCEPT !.op = "check_rate_limit", !.email = key,
                             !.row = count,
                             !.late = redis[key].count > LoginAttempts] IN
       /\ redis' = IF ok THEN [redis EXCEPT ![key].count = count] ELSE redis
       /\ rate' = [rate EXCEPT
                     ![key].admitted = @ + (IF count <= LoginAttempts
                                               /\ (ok \/ redis[key].count > 0)
                                            THEN 1 ELSE 0),
                     ![key].errors = @ + (IF ok THEN 0 ELSE 1)]
       /\ IF count = 1 THEN Goto(p, [c EXCEPT !.pc = "rl_expire"])
          ELSE Return(p, c, rate_answer(count, LoginAttempts))
    /\ UNCHANGED <<db, env, files, issued, hist, http, named>>

\* check_rate_limit, lines 22-29 and 31-38: EXPIRE, whose failure is
\* dropped, then the answer.
RateExpire(p, ok) ==
    /\ At(p, "check_rate_limit", "rl_expire")
    /\ LET key == call[p].email IN
       /\ redis' = IF ok /\ redis[key].count > 0
                   THEN [redis EXCEPT ![key].ttl = LoginWindow] ELSE redis
       /\ rate' = [rate EXCEPT ![key].extended =
                      @ \/ (ok /\ redis[key].count > 0 /\ redis[key].ttl # NoTtl)]
    /\ Return(p, call[p], rate_answer(call[p].row, LoginAttempts))
    /\ UNCHANGED <<db, env, files, issued, hist, http, named>>

\* The redis clock advances by one step: times to live run down and the
\* keys whose time is over are deleted.
RedisTick ==
    /\ \E k \in RateKeys : redis[k].ttl # NoTtl
    /\ redis' = [k \in RateKeys |->
                    IF redis[k].ttl = NoTtl THEN redis[k]
                    ELSE IF redis[k].ttl <= 1 THEN NoKey
                    ELSE [redis[k] EXCEPT !.ttl = @ - 1]]
    /\ rate' = [k \in RateKeys |->
                    IF redis[k].ttl # NoTtl /\ redis[k].ttl <= 1
                    THEN [rate[k] EXCEPT !.admitted = 0, !.extended = FALSE]
                    ELSE rate[k]]
    /\ ret' = NoRet
    /\ UNCHANGED <<db, env, files, call, issued, hist, http, named>>

\* ----------------------------------------------------------------- time

\* ---- File encryption (services/encryption.rs) ----
\* Byte strings are sequences of 0..255.  AES-256, GHASH and HMAC-SHA256 come
\* from the aes-gcm, hkdf and sha2 crates and are not part of the repository:
\* keyed byte functions with the same structure stand in for them (counter
\* mode keystream, a polynomial hash of the ciphertext folded into the tag, an
\* extract step and an expand step over info || 0x01).  They are free of
\* collisions on the inputs below, as the primitives are assumed to be.

RECURSIVE XorBits(_, _, _)
XorBits(a, b, n) ==
    IF n = 0 THEN 0
    ELSE (((a % 2) + (b % 2)) % 2) + 2 * XorBits(a \div 2, b \div 2, n - 1)

\* a ^ b on u8.
XorByte(a, b) == XorBits(a, b, 8)

\* Byte j of the block cipher applied under key to the block iv || ctr.
BlockCipher(key, iv, ctr, j) ==
    ((key[j] * 5) + (key[j + 16] * 3) + (iv[((j - 1) % 12) + 1] * 7) + (ctr * 11) + j) % 256

\* Byte j of the hash subkey: the cipher applied to the zero block.
HashSubkey(key, j) == BlockCipher(key, [i \in 1..12 |-> 0], 0, j)

RECURSIVE Horner(_, _, _)
Horner(c, w, acc) ==
    IF c = <<>> THEN acc
    ELSE Horner(Tail(c), w, ((acc + Head(c)) * w) % 256)

\* Byte j of the polynomial hash of the ciphertext and its length.
GHash(key, c, j) == Horner(c, 2 * HashSubkey(key, j) + 1, Len(c) * 8)

\* Counter-mode keystream: data blocks start at counter 2, counter 1 masks
\* the tag.
Keystream(key, nonce, i) ==
    BlockCipher(key, nonce, 2 + ((i - 1) \div 16), ((i - 1) % 16) + 1)

AeadTag(key, nonce, c) ==
    [j \in 1..16 |-> XorByte(BlockCipher(key, nonce, 1, j), GHash(key, c, j))]

\* Aes256Gcm::encrypt: ciphertext followed by the 16-byte tag.
AeadEncrypt(key, nonce, plaintext) ==
    LET c == [i \in 1..Len(plaintext) |->
                 XorByte(plaintext[i], Keystream(key, nonce, i))] IN
    c \o AeadTag(key, nonce, c)

\* Aes256Gcm::decrypt: the tag is recomputed and compared before any
\* plaintext is released.
AeadDecrypt(key, nonce, combined) ==
    IF Len(combined) < 16 THEN [ok |-> FALSE, value |-> <<>>]
    ELSE LET n   == Len(combined) - 16
             c   == SubSeq(combined, 1, n)
             tag == SubSeq(combined, n + 1, Len(combined)) IN
         IF tag # AeadTag(key, nonce, c) THEN [ok |-> FALSE, value |-> <<>>]
         ELSE [ok |-> TRUE,
               value |-> [i \in 1..n |-> XorByte(c[i], Keystream(key, nonce, i))]]

\* usize::saturating_sub.
saturating_sub(a, b) == IF a >= b THEN a - b ELSE 0

\* The variant of encrypt_file that splits the tag off 12 bytes from the end.
encrypt_file_split12(plaintext, key, iv) ==
    LET ciphertext == AeadEncrypt(key, iv, plaintext)
        tag_start  == saturating_sub(Len(ciphertext), 12) IN
    [ciphertext |-> SubSeq(ciphertext, 1, tag_start), iv |-> iv,
     tag |-> SubSeq(ciphertext, tag_start + 1, Len(ciphertext))]

\* The variant of encrypt_file that leaves the iv at the zeros it was
\* allocated with.
encrypt_file_zero_iv(plaintext, key, iv) ==
    LET zero       == [i \in 1..12 |-> 0]
        ciphertext == AeadEncrypt(key, zero, plaintext)
        tag_start  == saturating_sub(Len(ciphertext), 16) IN
    [ciphertext |-> SubSeq(ciphertext, 1, tag_start), iv |-> zero,
     tag |-> SubSeq(ciphertext, tag_start + 1, Len(ciphertext))]

\* encrypt_file, lines 37-59; iv is the 12 bytes OsRng filled in.
encrypt_file(plaintext, key, iv) ==
    LET ciphertext == AeadEncrypt(key, iv, plaintext)
        tag_start  == saturating_sub(Len(ciphertext), 16) IN
    [ciphertext |-> SubSeq(ciphertext, 1, tag_start), iv |-> iv,
     tag |-> SubSeq(ciphertext, tag_start + 1, Len(ciphertext))]

\* The variant of decrypt_file that releases the plaintext without comparing
\* the tag.
decrypt_file_unverified(ciphertext, iv, tag, key) ==
    IF Len(iv) # 12 THEN [result |-> "IvLength", value |-> <<>>]
    ELSE IF Len(tag) # 16 THEN [result |-> "TagLength", value |-> <<>>]
    ELSE [result |-> "Ok",
          value |-> [i \in 1..Len(ciphertext) |->
                        XorByte(ciphertext[i], Keystream(key, iv, i))]]

\* decrypt_file, lines 71-95.
decrypt_file(ciphertext, iv, tag, key) ==
    IF Len(iv) # 12 THEN [result |-> "IvLength", value |-> <<>>]
    ELSE IF Len(tag) # 16 THEN [result |-> "TagLength", value |-> <<>>]
    ELSE LET plaintext == AeadDecrypt(key, iv, ciphertext \o tag) IN
         IF plaintext.ok
         THEN [result |-> "Ok", value |-> plaintext.value]
         ELSE [result |-> "DecryptionFailed", value |-> <<>>]

\* "minispace-tenant-" as bytes.
InfoPrefix == <<109, 105, 110, 105, 115, 112, 97, 99, 101, 45,
                116, 101, 110, 97, 110, 116, 45>>

\* Hkdf::new(None, ikm): extraction with the all-zero salt.
HkdfExtract(ikm) == [j \in 1..32 |-> ((ikm[j] * 3) + j) % 256]

\* Hkdf::expand to 32 bytes: one block, keyed by prk, over info || 0x01.
HkdfExpand(prk, info) ==
    LET m == info \o <<1>> IN
    [j \in 1..32 |-> XorByte(prk[j], IF j <= Len(m) THEN m[j] ELSE 0)]

\* The variant of derive_tenant_key whose info string leaves the tenant out.
derive_tenant_key_shared(master, tenant) ==
    IF Len(master) # 32 THEN [result |-> "InvalidMasterKeyLength", key |-> <<>>]
    ELSE [result |-> "Ok", key |-> HkdfExpand(HkdfExtract(master), InfoPrefix)]

\* The variant of derive_tenant_key that refuses only master keys shorter
\* than 32 bytes.
derive_tenant_key_min32(master, tenant) ==
    IF Len(master) < 32 THEN [result |-> "InvalidMasterKeyLength", key |-> <<>>]
    ELSE [result |-> "Ok",
          key |-> HkdfExpand(HkdfExtract(master), InfoPrefix \o tenant)]

\* derive_tenant_key, lines 15-27.
derive_tenant_key(master, tenant) ==
    IF Len(master) # 32 THEN [result |-> "InvalidMasterKeyLength", key |-> <<>>]
    ELSE [result |-> "Ok",
          key |-> HkdfExpand(HkdfExtract(master), InfoPrefix \o tenant)]

\* Inputs: the keys of the unit tests and one derived key (the stand-ins do
\* not diffuse, so the keys are chosen far apart), master keys of 32, 31, 33
\* and 0 bytes, the slugs "", "a", "b", "ab", "a-b", "acme" as bytes, plaintexts of
\* 0, 1, 2 and 17 bytes (more than one cipher block), two values of the
\* random iv.
Key42        == [i \in 1..32 |-> 42]
Key99        == [i \in 1..32 |-> 99]
MasterKeys   == {MasterZero, [i \in 1..32 |-> i], [i \in 1..31 |-> 0],
                 [i \in 1..33 |-> 0], <<>>}
TenantSlugs  == {<<>>, <<97>>, <<98>>, <<97, 98>>, <<97, 45, 98>>,
                 <<97, 99, 109, 101>>}
Plaintexts   == {<<>>, <<0>>, <<104, 105>>, [i \in 1..17 |-> 255]}
IvInputs     == {[i \in 1..12 |-> 0], [i \in 1..12 |-> 16 * i]}
FileKeys     == {Key42, Key99, derive_tenant_key(MasterZero, <<97>>).key}
FlipBits     == {0, 7}

\* media.rs 112, routes/media.rs 317: the tenant's key is derived.
DeriveKey(tenant) ==
    /\ LET r == derive_tenant_key(master_key, tenant) IN
       /\ derived' = derived \cup {[tenant |-> tenant, result |-> r.result, key |-> r.key]}
       /\ out' = [NoOut EXCEPT !.op = "derive_tenant_key", !.result = r.result,
                               !.value = r.key, !.tenant = tenant]
    /\ UNCHANGED <<db, env, web, call, ret, issued, hist, master_key, master_hex,
                   encrypted, blob>>

\* media.rs 115: the file is encrypted under a fresh iv and stored.
EncryptFile(iv) ==
    /\ blob.state = "plain"
    /\ LET r == encrypt_file(blob.plaintext, blob.key, iv) IN
       /\ blob' = [blob EXCEPT !.state = "stored", !.ciphertext = r.ciphertext,
                               !.iv = r.iv, !.tag = r.tag]
       /\ encrypted' = Append(encrypted, [key |-> blob.key, draw |-> iv, iv |-> r.iv])
       /\ out' = [NoOut EXCEPT !.op = "encrypt_file", !.result = "Ok",
                               !.value = r.ciphertext, !.key = blob.key]
    /\ UNCHANGED <<db, env, web, call, ret, issued, hist, master_key, master_hex, derived>>

\* One bit of the stored ciphertext or of the stored tag is flipped.
FlipBit(part, i, bit) ==
    /\ blob.state = "stored" /\ ~blob.flipped
    /\ i \in 1..Len(blob[part])
    /\ blob' = [blob EXCEPT ![part] = [@ EXCEPT ![i] = XorByte(@, 2 ^ bit)],
                            !.flipped = TRUE]
    /\ out' = NoOut
    /\ UNCHANGED <<db, env, web, call, ret, issued, hist, master_key, master_hex,
                   derived, encrypted>>

\* routes/media.rs 323: the stored file is decrypted under a key.
DecryptFile(key) ==
    /\ blob.state = "stored"
    /\ LET r == decrypt_file(blob.ciphertext, blob.iv, blob.tag, key) IN
       out' = [NoOut EXCEPT !.op = "decrypt_file", !.result = r.result,
                            !.value = r.value, !.key = key]
    /\ UNCHANGED <<db, env, web, call, ret, issued, hist, master_key, master_hex,
                   derived, encrypted, blob>>

\* ---- Media upload and download (services/media.rs, routes/media.rs) ----

\* hex::decode: an odd length or a character that is no hex digit is an
\* error; otherwise each pair of digits is one byte.
hex_decode(str) ==
    IF Len(str) % 2 = 1 \/ \E i \in 1..Len(str) : str[i] > 15
    THEN [ok |-> FALSE, bytes |-> <<>>]
    ELSE [ok |-> TRUE,
          bytes |-> [i \in 1..(Len(str) \div 2) |-> (16 * str[2 * i - 1]) + str[2 * i]]]

\* Values of ENCRYPTION_MASTER_KEY: two keys of 64 hex digits, one of 62
\* digits, one of 63, one of 64 characters the first of which is no digit.
HexConfigs == {HexZero, [i \in 1..64 |-> i % 16], [i \in 1..62 |-> 0],
               [i \in 1..63 |-> 0], [i \in 1..64 |-> IF i = 1 THEN 16 ELSE 0]}

\* The tenant of the stored file, "acme" as bytes: the first segment of the
\* storage path.
MediaTenant == <<97, 99, 109, 101>>

\* The file is on disk once upload has written it; its media row exists
\* once upload has inserted it.
OnDisk(b) == b.state \in {"written", "orphan", "stored"}
InDb(b)   == b.state = "stored"

\* main, lines 48-49: the configuration is read from the environment; no
\* value of the master key is refused.
Boot(value) ==
    /\ blob.state # "written"
    /\ master_hex' = value
    /\ out' = NoOut
    /\ UNCHANGED <<db, env, web, call, ret, issued, hist, master_key, derived,
                   encrypted, blob>>

\* MediaService::upload, lines 105-118: the master key is decoded and
\* checked, the tenant key derived, the file encrypted and written to disk.
UploadWrite(plaintext, iv) ==
    /\ blob.state # "written"
    /\ Len(encrypted) < MaxUploads
    /\ LET k == hex_decode(master_hex)
           d == derive_tenant_key(k.bytes, MediaTenant)
           r == encrypt_file(plaintext, d.key, iv)
           failed(res) ==
              /\ out' = [NoOut EXCEPT !.op = "upload", !.result = res, !.status = 500]
              /\ UNCHANGED <<blob, encrypted>> IN
       IF ~k.ok THEN failed("InvalidMasterKey")
       ELSE IF Len(k.bytes) # 32 THEN failed("MasterKeyLength")
       ELSE IF d.result # "Ok" THEN failed(d.result)
       ELSE /\ blob' = [NoBlob EXCEPT !.state = "written", !.plaintext = plaintext,
                                      !.key = d.key, !.ciphertext = r.ciphertext,
                                      !.iv = r.iv, !.tag = r.tag]
            /\ encrypted' = Append(encrypted, [key |-> d.key, draw |-> iv, iv |-> r.iv])
            /\ out' = NoOut
    /\ UNCHANGED <<db, env, web, call, ret, issued, hist, master_key, master_hex, derived>>

\* MediaService::upload, lines 138-170: the media row with iv and tag is
\* inserted; on a database error the file stays on disk without a row.
UploadInsert(ok) ==
    /\ blob.state = "written"
    /\ blob' = [blob EXCEPT !.state = IF ok THEN "stored" ELSE "orphan"]
    /\ out' = [NoOut EXCEPT !.op = "upload",
                            !.result = IF ok THEN "Ok" ELSE "DbError",
                            !.status = IF ok THEN 201 ELSE 500]
    /\ UNCHANGED <<db, env, web, call, ret, issued, hist, master_key, master_hex,
                   derived, encrypted>>

\* The variant of serve_media that answers a failed decryption like a
\* missing file.
serve_media_not_found(b, hex) ==
    IF ~OnDisk(b) THEN [status |-> 404, result |-> "FileNotFound", value |-> <<>>]
    ELSE IF ~InDb(b) THEN [status |-> 404, result |-> "NotInDatabase", value |-> <<>>]
    ELSE LET k == hex_decode(hex)
             d == derive_tenant_key(k.bytes, MediaTenant)
             p == decrypt_file(b.ciphertext, b.iv, b.tag, d.key) IN
         IF ~k.ok THEN [status |-> 500, result |-> "InvalidMasterKey", value |-> <<>>]
         ELSE IF Len(k.bytes) # 32
         THEN [status |-> 500, result |-> "MasterKeyLength", value |-> <<>>]
         ELSE IF d.result # "Ok"
         THEN [status |-> 500, result |-> "KeyDerivationFailed", value |-> <<>>]
         ELSE IF p.result # "Ok"
         THEN [status |-> 404, result |-> "FileNotFound", value |-> <<>>]
         ELSE [status |-> 200, result |-> "Ok", value |-> p.value]

\* serve_media, lines 194-373, for the path of the stored file: the file
\* must be on disk (204-207) and have a row (236-287); an encrypted file is
\* decrypted under the tenant key derived from the configured master key
\* (297-327).
serve_media(b, hex) ==
    IF ~OnDisk(b) THEN [status |-> 404, result |-> "FileNotFound", value |-> <<>>]
    ELSE IF ~InDb(b) THEN [status |-> 404, result |-> "NotInDatabase", value |-> <<>>]
    ELSE LET k == hex_decode(hex)
             d == derive_tenant_key(k.bytes, MediaTenant)
             p == decrypt_file(b.ciphertext, b.iv, b.tag, d.key) IN
         IF ~k.ok THEN [status |-> 500, result |-> "InvalidMasterKey", value |-> <<>>]
         ELSE IF Len(k.bytes) # 32
         THEN [status |-> 500, result |-> "MasterKeyLength", value |-> <<>>]
         ELSE IF d.result # "Ok"
         THEN [status |-> 500, result |-> "KeyDerivationFailed", value |-> <<>>]
         ELSE IF p.result # "Ok"
         THEN [status |-> 500, result |-> p.result, value |-> <<>>]
         ELSE [status |-> 200, result |-> "Ok", value |-> p.value]

ServeMedia ==
    /\ LET r == serve_media(blob, master_hex) IN
       out' = [NoOut EXCEPT !.op = "serve_media", !.result = r.result,
                            !.value = r.value, !.status = r.status]
    /\ UNCHANGED <<db, env, web, call, ret, issued, hist, master_key, master_hex,
                   derived, encrypted, blob>>

\* ---- Invitations (auth.rs 545-597, 708-759) ----

\* chrono::Duration::days(7), line 565.
InviteTtl == 7 * UnitsPerDay

\* The 48 random alphanumeric characters of an invitation, lines 559-563.
invite_secret(id) == <<"invite", id>>

InviteEmails == {"new@x", "a@x"}
InviteInputs == {i.token : i \in invitation_tokens} \cup {<<"invite", 0>>}

\* create_invitation: without an email service nothing is stored; otherwise
\* the invitation row is inserted and the email sent; a delivery failure is
\* reported to the caller and the row stays.
CreateInvitation(p, email, delivered) ==
    /\ Start(p)
    /\ LET c == [Idle EXCEPT !.op = "create_invitation", !.email = email] IN
       IF ~email_svc
       THEN /\ Return(p, c, "EmailServiceUnavailable")
            /\ UNCHANGED <<invitation_tokens, seq>>
       ELSE /\ seq.inv < MaxInvites
            /\ seq' = [seq EXCEPT !.inv = @ + 1]
            /\ invitation_tokens' = invitation_tokens \cup
                  { [schema |-> Schema, id |-> seq.inv + 1, email |-> email,
                     token |-> invite_secret(seq.inv + 1), used |-> FALSE,
                     expires_at |-> now + InviteTtl] }
            /\ Return(p, [c EXCEPT !.row = seq.inv + 1],
                      IF delivered THEN "Ok" ELSE "SendFailed")
    /\ UNCHANGED <<users, refresh_tokens, two_factor_codes, trusted_devices,
                   password_reset_tokens, env, files, web, issued, hist>>

\* register_from_invite, lines 719-730: the unused invitation with this token
\* is read, then its expiry is compared with the clock.
RegisterFetch(p, token_str, password) ==
    /\ Start(p)
    /\ UNCHANGED <<db, env, files, web, issued, hist>>
    /\ LET c == [Idle EXCEPT !.op = "register_from_invite", !.password = password,
                    !.late = \E i \in invitation_tokens :
                                /\ i.token = token_str
                                /\ (hist.registered[i.id] > 0 \/ i.expires_at < now)]
           rows == {i \in invitation_tokens :
                       i.schema = Schema /\ i.token = token_str /\ ~i.used} IN
       IF rows = {}
       THEN Return(p, c, "InvalidInvitation")
       ELSE LET i == CHOOSE i \in rows : TRUE IN
            IF i.expires_at < now
            THEN Return(p, [c EXCEPT !.row = i.id], "InvitationExpired")
            ELSE Goto(p, [c EXCEPT !.pc = "r_insert", !.row = i.id, !.email = i.email])

\* The users row of a registration (is_active defaults to TRUE and
\* force_password_change to FALSE, tenant.rs 31-45).
NewUser(p) ==
    [schema |-> schema_name(call[p].tenant), id |-> "n" \o ToString(seq.user + 1),
     email |-> call[p].email, password_hash |-> bcrypt_hash(call[p].password),
     is_active |-> TRUE, force_password_change |-> FALSE]

\* The variant of the INSERT on a users table without the UNIQUE constraint
\* on email.
RegisterInsertNoUnique(p) ==
    /\ At(p, "register_from_invite", "r_insert")
    /\ users' = users \cup {NewUser(p)}
    /\ seq' = [seq EXCEPT !.user = @ + 1]
    /\ hist' = [hist EXCEPT !.created[call[p].row] = @ + 1]
    /\ Goto(p, [call[p] EXCEPT !.pc = "r_used", !.uid = NewUser(p).id])
    /\ UNCHANGED <<refresh_tokens, two_factor_codes, trusted_devices,
                   password_reset_tokens, invitation_tokens, env, files, web, issued>>

\* register_from_invite, lines 732-748: INSERT INTO users; users.email is
\* UNIQUE (tenant.rs 33), so the statement fails when the address is taken.
RegisterInsert(p) ==
    /\ At(p, "register_from_invite", "r_insert")
    /\ IF \E u \in users : u.schema = schema_name(call[p].tenant)
                           /\ u.email = call[p].email
       THEN /\ Return(p, call[p], "DbError")
            /\ UNCHANGED <<users, seq, hist>>
       ELSE /\ users' = users \cup {NewUser(p)}
            /\ seq' = [seq EXCEPT !.user = @ + 1]
            /\ hist' = [hist EXCEPT !.created[call[p].row] = @ + 1]
            /\ Goto(p, [call[p] EXCEPT !.pc = "r_used", !.uid = NewUser(p).id])
    /\ UNCHANGED <<refresh_tokens, two_factor_codes, trusted_devices,
                   password_reset_tokens, invitation_tokens, env, files, web, issued>>

\* register_from_invite, lines 750-758: the invitation is marked used.
RegisterMarkUsed(p) ==
    /\ At(p, "register_from_invite", "r_used")
    /\ invitation_tokens' =
          { IF i.schema = schema_name(call[p].tenant) /\ i.id = call[p].row
            THEN [i EXCEPT !.used = TRUE] ELSE i : i \in invitation_tokens }
    /\ hist' = [hist EXCEPT !.registered[call[p].row] = @ + 1]
    /\ Return(p, call[p], "Ok")
    /\ UNCHANGED <<users, refresh_tokens, two_factor_codes, trusted_devices,
                   password_reset_tokens, seq, env, files, web, issued>>

\* Time passes between two statements: the lifetime of a 2FA code, or that of
\* a trusted device.
TickSteps == {TwoFactorTtl, DeviceTtl}

Tick(d) ==
    /\ ticks < MaxTicks
    /\ now' = now + d
    /\ ticks' = ticks + 1
    /\ ret' = NoRet
    /\ UNCHANGED <<db, email_svc, call, issued, hist, files, web>>

\* ------------------------------------------------------------------ spec
\* The device cookies a browser can send: none, those responses have set, and
\* damaged ones: no separator, a first part that is no uuid, a wrong secret,
\* an id that no row has.
DamagedCookies == {<<1>>, <<0, device_secret(1)>>, <<1, 7>>,
                   <<MaxDevices + 1, device_secret(1)>>}
CookieInputs == {NoCookie} \cup issued.dev \cup DamagedCookies

\* Login and 2FA, two requests in flight, for one known and one unknown email.
NextLogin ==
    \/ \E p \in Procs, t \in TenantInputs, e \in {"a@x", "nobody@x"}, pw \in Passwords,
          c \in {NoCookie} \cup issued.dev : LoginCredentials(p, t, e, pw, c)
    \/ \E p \in Procs : LoginValidateDevice(p, FALSE)
    \/ \E p \in Procs : LoginStoreRefresh(p)
    \/ \E p \in Procs : LoginIssueDevice(p)
    \/ \E p \in Procs : LoginInvalidateCodes(p)
    \/ \E p \in Procs, code \in CodeSpace : LoginInsertCode(p, code)
    \/ \E p \in Procs, ok \in BOOLEAN : LoginSendCode(p, ok)
    \/ \E p \in Procs, e \in {"a@x", "nobody@x"}, code \in CodeInputs :
          VerifyUser(p, Tenant, e, code)
    \/ \E p \in Procs : VerifyFetchCode(p)
    \/ \E p \in Procs : VerifyCountAttempt(p)
    \/ \E p \in Procs : VerifyMarkUsed(p)
    \/ \E p \in Procs : VerifyStoreRefresh(p)
    \/ \E p \in Procs : VerifyIssueDevice(p)

SpecLogin == Init /\ [][NextLogin]_vars

\* Login and 2FA, one request at a time, while time passes.  Both users log
\* in, with any cookie; the first one completes 2FA.
NextTimed ==
    \/ \E t \in TenantInputs, e \in {"a@x", "b@x"}, pw \in Passwords, c \in CookieInputs :
          LoginCredentials(1, t, e, pw, c)
    \/ \E err \in BOOLEAN : LoginValidateDevice(1, err)
    \/ LoginStoreRefresh(1)
    \/ LoginIssueDevice(1)
    \/ LoginInvalidateCodes(1)
    \/ \E code \in CodeSpace : LoginInsertCode(1, code)
    \/ \E ok \in BOOLEAN : LoginSendCode(1, ok)
    \/ \E code \in CodeInputs : VerifyUser(1, Tenant, "a@x", code)
    \/ VerifyFetchCode(1)
    \/ VerifyCountAttempt(1)
    \/ VerifyMarkUsed(1)
    \/ VerifyStoreRefresh(1)
    \/ VerifyIssueDevice(1)
    \/ \E d \in TickSteps : Tick(d)

SpecTimed == Init /\ [][NextTimed]_vars

\* One client at a time, no passage of time, every kind of credentials:
\* known, unknown and deactivated addresses, right and wrong passwords.
NextCredentials ==
    \/ \E t \in TenantInputs, e \in AllEmails, pw \in Passwords,
          c \in {NoCookie} \cup issued.dev : LoginCredentials(1, t, e, pw, c)
    \/ LoginValidateDevice(1, FALSE)
    \/ LoginStoreRefresh(1)
    \/ LoginIssueDevice(1)
    \/ LoginInvalidateCodes(1)
    \/ \E code \in CodeSpace : LoginInsertCode(1, code)
    \/ \E ok \in BOOLEAN : LoginSendCode(1, ok)
    \/ \E code \in CodeInputs : VerifyUser(1, Tenant, "a@x", code)
    \/ VerifyFetchCode(1)
    \/ VerifyCountAttempt(1)
    \/ VerifyMarkUsed(1)
    \/ VerifyStoreRefresh(1)
    \/ VerifyIssueDevice(1)

SpecCredentials == Init /\ [][NextCredentials]_vars

\* Two sessions of user u1, as two logins with 2FA from two browsers leave them.
SessionToken(j) == generate_refresh_token("u1", RefreshSecret, RefreshTtlDays, j, 0)

InitSession ==
    /\ users = { [schema |-> Schema, id |-> "u1", email |-> "a@x",
                  password_hash |-> bcrypt_hash("pw1"), is_active |-> TRUE,
                  force_password_change |-> FALSE],
                 [schema |-> Schema, id |-> "u2", email |-> "b@x",
                  password_hash |-> bcrypt_hash("pw2"), is_active |-> TRUE,
                  force_password_change |-> FALSE],
                 [schema |-> Schema, id |-> "u3", email |-> "off@x",
                  password_hash |-> bcrypt_hash("pw1"), is_active |-> FALSE,
                  force_password_change |-> FALSE] }
    /\ refresh_tokens =
          { [schema |-> Schema, id |-> j, user_id |-> "u1",
             token_hash |-> bcrypt_hash(JwtPrefix72(SessionToken(j))),
             expires_at |-> RefreshTtlDays * UnitsPerDay, revoked |-> FALSE]
            : j \in {1, 2} }
    /\ two_factor_codes =
          { [schema |-> Schema, id |-> j, user_id |-> "u1", code |-> ToString(CodeLow),
             expires_at |-> TwoFactorTtl, used |-> TRUE, attempts |-> 1] : j \in {1, 2} }
    /\ trusted_devices =
          { [schema |-> Schema, id |-> j, user_id |-> "u1",
             token_hash |-> bcrypt_hash(<<device_secret(j)>>),
             expires_at |-> DeviceTtl] : j \in {1, 2} }
    /\ password_reset_tokens = {}
    /\ invitation_tokens = {}
    /\ seq = [rt |-> 2, code |-> 2, dev |-> 2, reset |-> 0, inv |-> 0, user |-> 0]
    /\ now = 0
    /\ ticks = 0
    /\ email_svc = TRUE
    /\ call = [p \in Procs |-> Idle]
    /\ ret = NoRet
    /\ issued = [rt |-> {SessionToken(1), SessionToken(2)},
                 dev |-> {cookie_format(j, device_secret(j)) : j \in {1, 2}},
                 reset |-> {}]
    /\ hist = [NoHist EXCEPT !.consumed = [c \in 1..MaxCodes |-> 1]]
    /\ master_key = MasterZero /\ derived = {} /\ blob = NoBlob /\ out = NoOut
    /\ master_hex = HexZero /\ encrypted = <<>>
    /\ NoWeb

\* Refresh alone, two requests in flight.
NextRefresh ==
    \/ \E p \in Procs, t \in TenantInputs, token \in TokenInputs : RefreshFetch(p, t, token)
    \/ \E p \in Procs : RefreshRevoke(p)
    \/ \E p \in Procs : RefreshFetchUser(p)
    \/ \E p \in Procs : RefreshStoreNew(p)

SpecRefresh == InitSession /\ [][NextRefresh]_vars

\* Refresh and the three ways to set a password, two requests in flight.
NextPassword ==
    \/ \E p \in Procs, token \in TokenInputs : RefreshFetch(p, Tenant, token)
    \/ \E p \in Procs : RefreshRevoke(p)
    \/ \E p \in Procs : RefreshFetchUser(p)
    \/ \E p \in Procs : RefreshStoreNew(p)
    \/ \E p \in Procs, pw \in Passwords : ChangePasswordCheck(p, "u1", pw, "pw2")
    \/ \E p \in Procs : ChangePasswordUpdate(p)
    \/ \E p \in Procs : ChangePasswordRevoke(p)
    \/ \E p \in Procs, e \in {"a@x", "nobody@x"} : RequestResetUser(p, e)
    \/ \E p \in Procs, ok \in BOOLEAN : RequestResetInsert(p, ok)
    \/ \E p \in Procs, t \in ResetInputs : ResetFetch(p, t, "pw2")
    \/ \E p \in Procs : ResetUpdate(p)
    \/ \E p \in Procs : ResetRevoke(p)
    \/ \E p \in Procs : ResetMarkUsed(p)
    \/ \E p \in Procs, m \in {"temp_password", "email"} : AdminResetUser(p, "u1", m)
    \/ \E p \in Procs : AdminResetUpdate(p)
    \/ \E p \in Procs : AdminResetRevoke(p)
    \/ \E p \in Procs, ok \in BOOLEAN : AdminResetInsert(p, ok)

SpecPassword == InitSession /\ [][NextPassword]_vars

\* Refreshes of the two sessions of u1 beside change_password calls of u1.
NextChange ==
    \/ \E p \in Procs, token \in TokenInputs : RefreshFetch(p, Tenant, token)
    \/ \E p \in Procs : RefreshRevoke(p)
    \/ \E p \in Procs : RefreshFetchUser(p)
    \/ \E p \in Procs : RefreshStoreNew(p)
    \/ \E p \in Procs, pw \in Passwords : ChangePasswordCheck(p, "u1", pw, "pw2")
    \/ \E p \in Procs : ChangePasswordUpdate(p)
    \/ \E p \in Procs : ChangePasswordRevoke(p)

SpecChange == InitSession /\ [][NextChange]_vars

\* The three operations that re-verify identity, one request at a time, on
\* the account u1 with its two sessions; the clock can pass the hour of a
\* reset token.
NextIdentity ==
    \/ \E pw \in Passwords, new \in Passwords : ChangePasswordCheck(1, "u1", pw, new)
    \/ ChangePasswordUpdate(1)
    \/ ChangePasswordRevoke(1)
    \/ \E e \in {"b@x", "nobody@x"}, pw \in Passwords : UpdateEmailCheck(1, "u1", e, pw)
    \/ UpdateEmailExists(1)
    \/ UpdateEmailStore(1)
    \/ \E e \in {"a@x", "nobody@x"} : RequestResetUser(1, e)
    \/ \E ok \in BOOLEAN : RequestResetInsert(1, ok)
    \/ \E t \in ResetInputs, pw \in Passwords : ResetFetch(1, t, pw)
    \/ ResetUpdate(1)
    \/ ResetRevoke(1)
    \/ ResetMarkUsed(1)
    \/ Tick(ResetTtl)

SpecIdentity == InitSession /\ [][NextIdentity]_vars

\* The tables after one login and verify_2fa of u1: one session with its
\* refresh token and its trusted device.
InitSignedIn ==
    /\ users = { [schema |-> Schema, id |-> "u1", email |-> "a@x",
                  password_hash |-> bcrypt_hash("pw1"), is_active |-> TRUE,
                  force_password_change |-> FALSE],
                 [schema |-> Schema, id |-> "u2", email |-> "b@x",
                  password_hash |-> bcrypt_hash("pw2"), is_active |-> TRUE,
                  force_password_change |-> FALSE],
                 [schema |-> Schema, id |-> "u3", email |-> "off@x",
                  password_hash |-> bcrypt_hash("pw1"), is_active |-> FALSE,
                  force_password_change |-> FALSE] }
    /\ refresh_tokens =
          { [schema |-> Schema, id |-> 1, user_id |-> "u1",
             token_hash |-> bcrypt_hash(JwtPrefix72(SessionToken(1))),
             expires_at |-> RefreshTtlDays * UnitsPerDay, revoked |-> FALSE] }
    /\ two_factor_codes =
          { [schema |-> Schema, id |-> 1, user_id |-> "u1", code |-> ToString(CodeLow),
             expires_at |-> TwoFactorTtl, used |-> TRUE, attempts |-> 1] }
    /\ trusted_devices =
          { [schema |-> Schema, id |-> 1, user_id |-> "u1",
             token_hash |-> bcrypt_hash(<<device_secret(1)>>),
             expires_at |-> DeviceTtl] }
    /\ password_reset_tokens = {}
    /\ invitation_tokens = {}
    /\ seq = [rt |-> 1, code |-> 1, dev |-> 1, reset |-> 0, inv |-> 0, user |-> 0]
    /\ now = 0
    /\ ticks = 0
    /\ email_svc = TRUE
    /\ call = [p \in Procs |-> Idle]
    /\ ret = NoRet
    /\ issued = [rt |-> {SessionToken(1)},
                 dev |-> {cookie_format(1, device_secret(1))},
                 reset |-> {}]
    /\ hist = [NoHist EXCEPT !.consumed[1] = 1]
    /\ master_key = MasterZero /\ derived = {} /\ blob = NoBlob /\ out = NoOut
    /\ master_hex = HexZero /\ encrypted = <<>>
    /\ NoWeb

\* Logout beside the refreshes and logins of the same session: a login or a
\* logout is in flight beside at most one refresh.
NextSignOut ==
    \/ \E token \in TokenInputs, c \in {NoCookie} \cup issued.dev :
          LogoutRevoke(1, Tenant, token, c)
    \/ LogoutDevice(1)
    \/ \E p \in Procs, token \in TokenInputs : RefreshFetch(p, Tenant, token)
    \/ \E p \in Procs : RefreshRevoke(p)
    \/ \E p \in Procs : RefreshFetchUser(p)
    \/ \E p \in Procs : RefreshStoreNew(p)
    \/ \E c \in {NoCookie} \cup issued.dev : LoginCredentials(1, Tenant, "a@x", "pw1", c)
    \/ LoginValidateDevice(1, FALSE)
    \/ LoginStoreRefresh(1)
    \/ LoginIssueDevice(1)
    \/ LoginInvalidateCodes(1)
    \/ \E code \in CodeSpace : LoginInsertCode(1, code)
    \/ \E ok \in BOOLEAN : LoginSendCode(1, ok)

SpecSignOut == InitSignedIn /\ [][NextSignOut]_vars

\* The accounts a@x and b@x sign in, one request at a time, each with either
\* password, with any cookie issued so far and with either code.
FactorEmails == {"a@x", "b@x"}

NextFactors ==
    \/ \E t \in TenantInputs, e \in FactorEmails, pw \in Passwords,
          c \in {NoCookie} \cup issued.dev : LoginCredentials(1, t, e, pw, c)
    \/ LoginValidateDevice(1, FALSE)
    \/ LoginStoreRefresh(1)
    \/ LoginIssueDevice(1)
    \/ LoginInvalidateCodes(1)
    \/ \E code \in CodeSpace : LoginInsertCode(1, code)
    \/ \E ok \in BOOLEAN : LoginSendCode(1, ok)
    \/ \E e \in FactorEmails, code \in CodeInputs : VerifyUser(1, Tenant, e, code)
    \/ VerifyFetchCode(1)
    \/ VerifyCountAttempt(1)
    \/ VerifyMarkUsed(1)
    \/ VerifyStoreRefresh(1)
    \/ VerifyIssueDevice(1)

SpecFactors == Init /\ [][NextFactors]_vars

\* The account u1, signed in once, is deactivated at any moment between the
\* statements of its logins, verifications and refreshes.
NextDeactivate ==
    \/ \E pw \in Passwords, c \in {NoCookie} \cup issued.dev :
          LoginCredentials(1, Tenant, "a@x", pw, c)
    \/ LoginValidateDevice(1, FALSE)
    \/ LoginStoreRefresh(1)
    \/ LoginIssueDevice(1)
    \/ LoginInvalidateCodes(1)
    \/ \E code \in CodeSpace : LoginInsertCode(1, code)
    \/ \E ok \in BOOLEAN : LoginSendCode(1, ok)
    \/ \E code \in CodeInputs : VerifyUser(1, Tenant, "a@x", code)
    \/ VerifyFetchCode(1)
    \/ VerifyCountAttempt(1)
    \/ VerifyMarkUsed(1)
    \/ VerifyStoreRefresh(1)
    \/ VerifyIssueDevice(1)
    \/ \E token \in TokenInputs : RefreshFetch(1, Tenant, token)
    \/ RefreshRevoke(1)
    \/ RefreshFetchUser(1)
    \/ RefreshStoreNew(1)
    \/ DeactivateUser("u1")

SpecDeactivate == InitSignedIn /\ [][NextDeactivate]_vars

\* The refresh token of the session of v1 in the second tenant.
OtherToken == generate_refresh_token("v1", RefreshSecret, RefreshTtlDays, 2, 0)

\* Two tenants, each with one account (the same email) and one session.
InitTenants ==
    /\ users = { [schema |-> Schema, id |-> "u1", email |-> "a@x",
                  password_hash |-> bcrypt_hash("pw1"), is_active |-> TRUE,
                  force_password_change |-> FALSE],
                 [schema |-> schema_name(OtherTenant), id |-> "v1", email |-> "a@x",
                  password_hash |-> bcrypt_hash("pw1"), is_active |-> TRUE,
                  force_password_change |-> FALSE] }
    /\ refresh_tokens =
          { [schema |-> Schema, id |-> 1, user_id |-> "u1",
             token_hash |-> bcrypt_hash(JwtPrefix72(SessionToken(1))),
             expires_at |-> RefreshTtlDays * UnitsPerDay, revoked |-> FALSE],
            [schema |-> schema_name(OtherTenant), id |-> 2, user_id |-> "v1",
             token_hash |-> bcrypt_hash(JwtPrefix72(OtherToken)),
             expires_at |-> RefreshTtlDays * UnitsPerDay, revoked |-> FALSE] }
    /\ two_factor_codes = {}
    /\ trusted_devices = {}
    /\ password_reset_tokens = {}
    /\ invitation_tokens = {}
    /\ seq = [rt |-> 2, code |-> 0, dev |-> 0, reset |-> 0, inv |-> 0, user |-> 0]
    /\ now = 0
    /\ ticks = 0
    /\ email_svc = TRUE
    /\ call = [p \in Procs |-> Idle]
    /\ ret = NoRet
    /\ issued = [rt |-> {SessionToken(1), OtherToken}, dev |-> {}, reset |-> {}]
    /\ hist = NoHist
    /\ master_key = MasterZero /\ derived = {} /\ blob = NoBlob /\ out = NoOut
    /\ master_hex = HexZero /\ encrypted = <<>>
    /\ NoWeb

\* Refreshes with every issued token under either tenant.
NextTenants ==
    \/ \E p \in Procs, t \in {Tenant, OtherTenant}, token \in TokenInputs :
          RefreshFetch(p, t, token)
    \/ \E p \in Procs : RefreshRevoke(p)
    \/ \E p \in Procs : RefreshFetchUser(p)
    \/ \E p \in Procs : RefreshStoreNew(p)

SpecTenants == InitTenants /\ [][NextTenants]_vars

\* Refresh and email changes, two requests in flight.
NextEmail ==
    \/ \E p \in Procs, token \in TokenInputs : RefreshFetch(p, Tenant, token)
    \/ \E p \in Procs : RefreshRevoke(p)
    \/ \E p \in Procs : RefreshFetchUser(p)
    \/ \E p \in Procs : RefreshStoreNew(p)
    \/ \E p \in Procs, u \in UserIds, e \in Emails, pw \in Passwords :
          UpdateEmailCheck(p, u, e, pw)
    \/ \E p \in Procs : UpdateEmailExists(p)
    \/ \E p \in Procs : UpdateEmailStore(p)

SpecEmail == InitSession /\ [][NextEmail]_vars

\* Logout, two requests in flight on two sessions.
NextLogout ==
    \/ \E p \in Procs, t \in TenantInputs, token \in LogoutTokenInputs, c \in CookieInputs :
          LogoutRevoke(p, t, token, c)
    \/ \E p \in Procs : LogoutDevice(p)

SpecLogout == InitSession /\ [][NextLogout]_vars

\* Password reset by email, two requests in flight, with or without an email
\* service, while the hour of the token passes.
NextReset ==
    \/ \E p \in Procs, e \in AllEmails : RequestResetUser(p, e)
    \/ \E p \in Procs, ok \in BOOLEAN : RequestResetInsert(p, ok)
    \/ \E p \in Procs, t \in ResetInputs, pw \in Passwords : ResetFetch(p, t, pw)
    \/ \E p \in Procs : ResetUpdate(p)
    \/ \E p \in Procs : ResetRevoke(p)
    \/ \E p \in Procs : ResetMarkUsed(p)
    \/ Tick(ResetTtl)

SpecReset == Init /\ [][NextReset]_vars

\* Invitations and registrations by two concurrent clients, with the clock
\* able to reach and to pass the invitations' expiry.
NextInvite ==
    \/ \E p \in Procs, e \in InviteEmails, ok \in BOOLEAN : CreateInvitation(p, e, ok)
    \/ \E p \in Procs, t \in InviteInputs, pw \in Passwords : RegisterFetch(p, t, pw)
    \/ \E p \in Procs : RegisterInsert(p)
    \/ \E p \in Procs : RegisterMarkUsed(p)
    \/ \E d \in {InviteTtl, InviteTtl + 1} : Tick(d)

SpecInvite == Init /\ [][NextInvite]_vars

\* The authentication tables play no part in the encryption service.
NoTables ==
    /\ users = {} /\ refresh_tokens = {} /\ two_factor_codes = {}
    /\ trusted_devices = {} /\ password_reset_tokens = {} /\ invitation_tokens = {}
    /\ seq = [rt |-> 0, code |-> 0, dev |-> 0, reset |-> 0, inv |-> 0, user |-> 0]
    /\ now = 0 /\ ticks = 0 /\ email_svc = FALSE
    /\ call = [p \in Procs |-> Idle] /\ ret = NoRet
    /\ issued = [rt |-> {}, dev |-> {}, reset |-> {}]
    /\ hist = NoHist

\* File encryption on its own: the plaintext and the key are drawn at the
\* start, then the file is encrypted, possibly damaged by one bit, and
\* decrypted under any key.
InitCipher ==
    /\ NoTables
    /\ master_key = MasterZero
    /\ master_hex = HexZero /\ encrypted = <<>>
    /\ NoWeb
    /\ derived = {}
    /\ blob \in {[NoBlob EXCEPT !.state = "plain", !.plaintext = p, !.key = k] :
                    p \in Plaintexts, k \in FileKeys}
    /\ out = NoOut

NextCipher ==
    \/ \E iv \in IvInputs : EncryptFile(iv)
    \/ \E part \in {"ciphertext", "tag"}, i \in 1..17, bit \in FlipBits :
          FlipBit(part, i, bit)
    \/ \E k \in FileKeys : DecryptFile(k)

SpecCipher == InitCipher /\ [][NextCipher]_vars

\* Key derivation on its own: the master key is drawn at the start, then
\* keys are derived for any slugs, any number of times.
InitDerive ==
    /\ NoTables
    /\ master_key \in MasterKeys
    /\ master_hex = HexZero /\ encrypted = <<>>
    /\ NoWeb
    /\ derived = {}
    /\ blob = NoBlob
    /\ out = NoOut

NextDerive == \E t \in TenantSlugs : DeriveKey(t)

SpecDerive == InitDerive /\ [][NextDerive]_vars

\* Uploads and downloads of one stored file at a time; the process may be
\* started again under another value of the master key, and a stored file
\* may be damaged by one bit.
InitMedia ==
    /\ NoTables
    /\ master_key = MasterZero
    /\ master_hex \in HexConfigs
    /\ NoWeb
    /\ derived = {} /\ encrypted = <<>>
    /\ blob = NoBlob
    /\ out = NoOut

NextMedia ==
    \/ \E v \in HexConfigs : Boot(v)
    \/ \E p \in {<<>>, <<104, 105>>}, iv \in IvInputs : UploadWrite(p, iv)
    \/ \E ok \in BOOLEAN : UploadInsert(ok)
    \/ \E part \in {"ciphertext", "tag"}, i \in {1, 16}, bit \in FlipBits :
          FlipBit(part, i, bit)
    \/ ServeMedia

SpecMedia == InitMedia /\ [][NextMedia]_vars

\* Requests to a handler behind both extractors, before and after the
\* access tokens have expired.
InitRequests ==
    /\ NoTables /\ NoWeb
    /\ master_key = MasterZero /\ master_hex = HexZero /\ encrypted = <<>>
    /\ derived = {} /\ blob = NoBlob /\ out = NoOut

NextRequests ==
    \/ \E x \in XTenantInputs, h \in HostInputs, a \in AuthorizationInputs :
          HandleRequest(x, h, a)
    \/ Tick(DeviceTtl)

SpecRequests == InitRequests /\ [][NextRequests]_vars

\* schema_name on its own, asked about any two slugs.
NextSlugs == \E slug \in SlugInputs : SchemaName(slug)

SpecSlugs == InitRequests /\ [][NextSlugs]_vars

\* Calls of check_rate_limit on a login key, two at a time, while the
\* redis clock runs; a command to redis can fail.
NextRate ==
    \/ \E p \in Procs, key \in RateKeys, ok \in BOOLEAN : RateIncr(p, key, ok)
    \/ \E p \in Procs, ok \in BOOLEAN : RateExpire(p, ok)
    \/ RedisTick

SpecRate == InitRequests /\ [][NextRate]_vars

\* ---------------------------------------------------------------- claims

\* C1: once a refresh with token t has succeeded, every refresh with t that is
\* requested afterwards fails, and fails as TokenRevokedOrUnknown or
\* TokenMismatch when t is a token the server issued, sent to its tenant.
ReplayRejected ==
    ret.op = "refresh" /\ ret.req.late =>
        /\ ret.result # "Ok"
        /\ (ret.req.token \in issued.rt /\ ret.req.tenant = Tenant
               => ret.result \in {"TokenRevokedOrUnknown", "TokenMismatch"})

\* A replay of a rotated, server-issued token has been answered.
ReplayAnswered ==
    /\ ret.op = "refresh" /\ ret.req.late
    /\ ret.req.token \in issued.rt /\ ret.req.tenant = Tenant
    /\ ret.result = "TokenRevokedOrUnknown"

\* C2: of the refresh calls made with one token, concurrent ones included, at
\* most one succeeds.
AtMostOneRotation == \A j \in 1..MaxRefresh : hist.rotated[j] <= 1

\* The 2FA code row a verify_2fa response is about.
CodeRow(id) == CHOOSE c \in two_factor_codes : c.id = id

\* C3: when three verifications have failed on the active code, verify_2fa
\* answers TooManyAttempts, also for the correct code, until a login stores a
\* new code.  A correct code is refused only with TooManyAttempts, and then the
\* third attempt on its row has been counted.
AttemptsCapped ==
    ret.op = "verify_2fa" /\ ret.req.row # 0 =>
        /\ (ret.req.late => ret.result = "TooManyAttempts")
        /\ (ret.result = "TooManyAttempts"
               => CodeRow(ret.req.row).attempts >= MaxAttempts)
        /\ (ret.req.code = CodeRow(ret.req.row).code
               => ret.result \in {"Ok", "TooManyAttempts"})

\* The correct code has been refused after three failures.
CorrectCodeRefused ==
    /\ ret.op = "verify_2fa" /\ ret.req.row # 0 /\ ret.req.late
    /\ ret.req.code = CodeRow(ret.req.row).code
    /\ ret.result = "TooManyAttempts"

\* C4: in every reachable state a user has at most one active (unused,
\* unexpired) 2FA code.
AtMostOneActiveCode ==
    \A u \in UserIds : Cardinality(ActiveCodes(Schema, u)) <= 1

\* C5: when login answers TwoFactorRequired, it has issued no tokens and the
\* user has exactly one active 2FA code.
TwoFactorRequiredLeavesOneCode ==
    ret.op = "login" /\ ret.result = "TwoFactorRequired" =>
        /\ ret.req.new_rt = NoToken /\ ret.new_dev = NoCookie
        /\ Cardinality(ActiveCodes(Schema, ret.req.uid)) = 1

\* C6: a refresh token that was valid when a successful change_password,
\* reset_password or admin temporary-password reset began is revoked, and a
\* refresh requested with it afterwards fails.
OldTokensFailAfterPasswordChange ==
    /\ \A r \in refresh_tokens : r.id \in hist.superseded => r.revoked
    /\ (ret.op = "refresh" /\ ret.req.stale => ret.result # "Ok")

\* A never-rotated token from before a password change has been refused.
OldTokenRefused ==
    /\ ret.op = "refresh" /\ ret.req.stale /\ ~ret.req.late
    /\ ret.req.token \in issued.rt
    /\ ret.result = "TokenRevokedOrUnknown"

\* C7: when update_email returns Ok, the refresh tokens the user had when the
\* request began are revoked.
EmailChangeRevokesTokens ==
    ret.op = "update_email" /\ ret.result = "Ok" =>
        \A r \in refresh_tokens : r.id \in ret.req.pre => r.revoked

\* C8: without an email service no code is ever stored and no session ever
\* begins (the tables start empty), and a login with valid credentials is
\* answered EmailServiceUnavailable.
NoEmailNoLogin ==
    ~email_svc =>
        /\ two_factor_codes = {} /\ refresh_tokens = {} /\ trusted_devices = {}
        /\ issued.rt = {} /\ issued.dev = {}
        /\ (ret.op = "login" /\ ret.req.uid # NoUser
               => ret.result = "EmailServiceUnavailable")

\* A login with valid credentials has been refused for want of an email service.
LoginRefusedWithoutEmail ==
    /\ ~email_svc /\ ret.op = "login" /\ ret.req.uid # NoUser
    /\ ret.result = "EmailServiceUnavailable"

\* C9: a 2FA code is accepted by at most one verify_2fa call, interleaved
\* calls included.
CodeConsumedOnce == \A c \in 1..MaxCodes : hist.consumed[c] <= 1

\* The cookie of request p is the one issued for an unexpired trusted device
\* of the user.
CookieOfLiveDevice(p) ==
    /\ call[p].cookie \in issued.dev
    /\ \E d \in trusted_devices :
          /\ d.schema = schema_name(call[p].tenant) /\ d.user_id = call[p].uid
          /\ d.id = call[p].cookie[1] /\ d.expires_at > now

\* What the login of request p does next when it carries no cookie.
AsWithoutCookie(p) ==
    /\ UNCHANGED <<db, issued>>
    /\ IF email_svc
       THEN call'[p] = [call[p] EXCEPT !.pc = "l_invalidate"] /\ ret' = NoRet
       ELSE call'[p] = Idle /\ ret'.result = "EmailServiceUnavailable"

\* C10: the device check of login either accepts the cookie of a live trusted
\* device of the user, or goes on exactly as a login without a cookie does:
\* no error for the cookie, no change to the database.
BadCookieIsNoCookie ==
    [][\A p \in Procs :
          At(p, "login", "l_validate") /\ call'[p] # call[p] =>
              \/ AsWithoutCookie(p)
              \/ CookieOfLiveDevice(p) /\ call'[p].pc = "l_refresh"]_vars

\* A login that sent the cookie of an expired device has been asked for 2FA.
ExpiredCookieAskedTwoFactor ==
    /\ ret.op = "login" /\ ret.result = "TwoFactorRequired"
    /\ ret.req.cookie \in issued.dev
    /\ \E d \in trusted_devices : d.id = ret.req.cookie[1] /\ d.user_id = ret.req.uid
                                   /\ d.expires_at <= now

\* The stored row of the refresh token a response returned.
RefreshRowOf(tok) == {r \in refresh_tokens : r.id = tok.jti /\ r.user_id = tok.sub}

\* The stored row of the device cookie a response set.
DeviceRowOf(cookie, user_id) ==
    {d \in trusted_devices : d.id = cookie[1] /\ d.user_id = user_id
                              /\ bcrypt_verify(<<cookie[2]>>, d.token_hash)}

\* C11: a login whose device cookie validates goes on to mint tokens and from
\* there never stores a 2FA code nor reaches the mailing of one; when it
\* answers Authenticated it returns a refresh token stored unrevoked and a
\* device cookie of a new row, different from the one it was sent.
TrustedDeviceSkipsTwoFactor ==
    /\ [](ret.op = "login" /\ ret.result = "Authenticated" =>
            /\ ret.req.row = 0
            /\ \E r \in RefreshRowOf(ret.req.new_rt) : ~r.revoked
            /\ ret.new_dev # ret.req.cookie /\ ret.new_dev \notin hist.devused
            /\ DeviceRowOf(ret.new_dev, ret.req.uid) # {})
    /\ [][\A p \in Procs : call[p].op = "login" /\ call'[p] # call[p] =>
            /\ (call[p].pc = "l_validate" /\ CookieOfLiveDevice(p)
                   => call'[p].pc = "l_refresh")
            /\ (call[p].pc \in {"l_refresh", "l_device"}
                   => /\ call'[p].pc \in {"l_device", "idle"}
                      /\ two_factor_codes' = two_factor_codes
                      /\ ret'.result \in {"none", "Authenticated"})]_vars

\* A login with a valid device cookie has been answered Authenticated.
TrustedLoginAnswered ==
    /\ ret.op = "login" /\ ret.result = "Authenticated"
    /\ ret.req.cookie \in issued.dev /\ ret.new_dev \in issued.dev

\* C12: a device cookie that a login has accepted and answered with a new
\* cookie is not accepted by a login that begins afterwards.
UsedCookieNotAccepted ==
    \A p \in Procs : ~(call[p].op = "login" /\ call[p].late /\ call[p].pc = "l_refresh")

ResetRequestAlwaysOk ==
    ret.op = "request_password_reset" => ret.result = "Ok"

\* A reset request for a known email has been answered without an email service.
ResetRequestAnsweredWithoutEmail ==
    /\ ret.op = "request_password_reset" /\ ret.result = "Ok"
    /\ ret.req.uid # NoUser /\ ~email_svc /\ password_reset_tokens # {}

\* A reset_password call that begins after its token was used with success,
\* or after the token has expired, fails as an invalid token.
SpentResetTokenRefused ==
    ret.op = "reset_password" /\ ret.req.late => ret.result = "InvalidResetToken"

\* C17: of the reset_password calls made with one reset token, interleaved
\* ones included, at most one succeeds in changing the password; a call that
\* begins after the token was used with success, or after it has expired,
\* fails as an invalid token.
ResetTokenSingleUse ==
    /\ \A t \in 1..MaxResets : hist.redeemed[t] <= 1
    /\ SpentResetTokenRefused

\* The credentials name an active account of the tenant and its password.
ValidCredentials(tenant, email, password) ==
    \E u \in ActiveByEmail(schema_name(tenant), email) :
        bcrypt_verify(password, u.password_hash)

\* C15: a login to an existing tenant whose address is unknown, whose account
\* is deactivated or whose password is wrong is answered in one step with the
\* one response InvalidCredentials, whichever of the three it was, and that
\* step leaves every table (users, refresh tokens, codes, trusted devices,
\* reset tokens) as it was.
LoginFailsGenerically ==
    [][\A t \in TenantInputs, e \in AllEmails, pw \in Passwords, c \in {NoCookie} \cup issued.dev :
          ( /\ LoginCredentials(1, t, e, pw, c)
            /\ schema_name(t) \in schemas
            /\ ~ValidCredentials(t, e, pw) )
          => /\ ret'.op = "login"
             /\ ret'.result = "InvalidCredentials"
             /\ ret'.new_dev = NoCookie
             /\ ret'.req.uid = NoUser
             /\ call'[1] = Idle
             /\ UNCHANGED db]_vars

\* A login with the deactivated account's address has been refused as
\* InvalidCredentials while codes and trusted devices were stored.
DeactivatedLoginRefused ==
    /\ ret.op = "login" /\ ret.result = "InvalidCredentials"
    /\ ret.req.email = "off@x"
    /\ two_factor_codes # {} /\ trusted_devices # {}

\* C16: of the register_from_invite calls made with one invitation,
\* interleaved ones included, at most one succeeds and at most one creates a
\* user; a call that begins when the invitation has been used or has expired
\* is refused at once, before any user is inserted.
InvitationConsumedOnce ==
    /\ \A i \in 1..MaxInvites : hist.registered[i] <= 1 /\ hist.created[i] <= 1
    /\ \A p \in Procs : call[p].op = "register_from_invite" => ~call[p].late
    /\ (ret.op = "register_from_invite" /\ ret.req.late
          => ret.result \in {"InvalidInvitation", "InvitationExpired"}
             /\ ret.req.uid = NoUser)

\* Two registrations read the same unused invitation; one has created the
\* user and the other's INSERT has just been refused.
SecondRegistrationRefused ==
    /\ ret.op = "register_from_invite" /\ ret.result = "DbError"
    /\ ~ret.req.late
    /\ hist.created[ret.req.row] = 1

\* C18: decrypting what encrypt_file produced, undamaged and under the key
\* it was encrypted with, gives back exactly the plaintext, the empty
\* plaintext included.
EncryptDecryptRoundTrip ==
    out.op = "decrypt_file" /\ ~blob.flipped /\ out.key = blob.key
    => out.result = "Ok" /\ out.value = blob.plaintext

\* The empty file has been encrypted and decrypted again.
EmptyFileRoundTrip ==
    /\ out.op = "decrypt_file" /\ ~blob.flipped /\ out.key = blob.key
    /\ out.result = "Ok"
    /\ blob.plaintext = <<>> /\ blob.ciphertext = <<>> /\ Len(blob.tag) = 16

\* C19: when one bit of the ciphertext or of the tag has been flipped, or
\* when the key is not the one the file was encrypted with, decrypt_file
\* fails with DecryptionFailed and returns no plaintext.
TamperingDetected ==
    out.op = "decrypt_file" /\ (blob.flipped \/ out.key # blob.key)
    => out.result = "DecryptionFailed" /\ out.value = <<>>

\* A file with one flipped bit has been handed to decrypt_file together with
\* the right key.
FlippedFileDecrypted ==
    /\ out.op = "decrypt_file" /\ blob.flipped /\ out.key = blob.key
    /\ blob.plaintext # <<>>

\* C20: under one 32-byte master key, derive_tenant_key gives one 32-byte key
\* per tenant slug, the same at every call, and different slugs get
\* different keys.
TenantKeysSeparate ==
    Len(master_key) = 32 =>
       \A a, b \in derived :
          /\ a.result = "Ok" /\ Len(a.key) = 32
          /\ (a.tenant = b.tenant) <=> (a.key = b.key)

\* Keys have been derived for "a" and for "ab" and again for "a".
TwoTenantKeysDerived ==
    /\ Len(master_key) = 32
    /\ \E a, b \in derived : a.tenant = <<97>> /\ b.tenant = <<97, 98>>
    /\ out.op = "derive_tenant_key" /\ out.tenant = <<97>>

\* C21: derive_tenant_key answers InvalidMasterKeyLength exactly when the
\* master key is not 32 bytes long; for a 32-byte master key it returns a
\* 32-byte key whatever the tenant string, the empty one included.
MasterKeyLengthChecked ==
    out.op = "derive_tenant_key" =>
       /\ (out.result = "InvalidMasterKeyLength") <=> (Len(master_key) # 32)
       /\ Len(master_key) = 32 => out.result = "Ok" /\ Len(out.value) = 32
       /\ Len(master_key) # 32 => out.value = <<>>

\* A master key of 33 bytes has been refused.
LongMasterKeyRefused ==
    /\ out.op = "derive_tenant_key" /\ Len(master_key) = 33
    /\ out.result = "InvalidMasterKeyLength"

\* C22: no upload and no download is ever answered with a failure about the
\* master key (not hex, or not 32 bytes), the key having been validated when
\* the process started.
MasterKeyFailureNeverObserved ==
    out.op \in {"upload", "serve_media"}
    => out.result \notin {"InvalidMasterKey", "MasterKeyLength"}

\* The configured master key decodes to 32 bytes.
MasterValid ==
    hex_decode(master_hex).ok /\ Len(hex_decode(master_hex).bytes) = 32

\* The tenant key the configured master key gives.
CurrentKey == derive_tenant_key(hex_decode(master_hex).bytes, MediaTenant).key

\* C24: a download of a file that is on disk and has its row is never
\* answered 404; when the file fails authentication (a flipped bit, or a key
\* other than the one it was encrypted under) the answer is the 500
\* "decryption failed", with no content.
DecryptionFailureIsNotNotFound ==
    out.op = "serve_media" /\ InDb(blob) =>
       /\ out.status # 404
       /\ MasterValid /\ (blob.flipped \/ CurrentKey # blob.key)
             => /\ out.status = 500 /\ out.result = "DecryptionFailed"
                /\ out.value = <<>>

\* A stored file with one flipped bit has been requested.
DamagedFileRequested ==
    /\ out.op = "serve_media" /\ InDb(blob) /\ blob.flipped /\ MasterValid
    /\ CurrentKey = blob.key
    /\ out.result = "DecryptionFailed"

AttemptsNeverExceedCap ==
    /\ \A c \in two_factor_codes : c.attempts <= MaxAttempts
    /\ \A id \in 1..MaxCodes : hist.failed[id] <= MaxAttempts

\* The two_factor_codes table with one more attempt counted on row id.
WithAttemptCounted(id) ==
    { IF c.id = id THEN [c EXCEPT !.attempts = @ + 1] ELSE c : c \in two_factor_codes }

\* C26: verify_2fa counts before it compares.  The step that answers a wrong
\* code with InvalidCode raises the attempts of the code by exactly 1, leaves
\* it unused and every other row and table as they were, and issues nothing;
\* the steps of the call before the count, and with them a call answered
\* TooManyAttempts or CodeExpiredOrMissing, change no stored state at all.
WrongCodeOnlyCounts ==
    [][ /\ ret'.op = "verify_2fa" /\ ret'.result = "InvalidCode"
           => /\ two_factor_codes' = WithAttemptCounted(ret'.req.row)
              /\ \E c \in two_factor_codes : c.id = ret'.req.row
              /\ UNCHANGED <<users, refresh_tokens, trusted_devices,
                             password_reset_tokens, invitation_tokens, seq, issued>>
        /\ ret'.op = "verify_2fa"
             /\ ret'.result \in {"TooManyAttempts", "CodeExpiredOrMissing"}
           => UNCHANGED <<db, issued>>
        /\ \A p \in Procs :
              call'[p].op = "verify_2fa" /\ call'[p].pc \in {"v_fetch", "v_count"}
              => UNCHANGED <<db, issued>>
      ]_vars

\* A wrong code has been answered InvalidCode on a code that had been tried
\* before: its counter stands at 2 or more and it is still unused.
WrongCodeCounted ==
    /\ ret.op = "verify_2fa" /\ ret.result = "InvalidCode"
    /\ CodeRow(ret.req.row).attempts >= 2
    /\ ~CodeRow(ret.req.row).used

\* Code row c can no longer be verified: it is used (by a verification, or
\* by the invalidation of a later login) or past its expiry.
Spent(c) == c.used \/ c.expires_at <= now

\* C27: verify_2fa succeeds only against the user's current active code.  A
\* code that is used, invalidated by a later login or past its 15 minutes
\* stays so for ever; the code a verification selects is, when it is
\* selected, an unused and unexpired code of that user and the newest such;
\* and the verification succeeds only with the digits of the code it selected.
\* So a verification that begins once a code is spent never succeeds against
\* it, whatever digits it sends.
OnlyActiveCodeVerifies ==
    [][ /\ \A c \in two_factor_codes : Spent(c) =>
              \E d \in two_factor_codes' :
                 /\ d.schema = c.schema /\ d.id = c.id /\ d.code = c.code
                 /\ d.used \/ d.expires_at <= now'
        /\ \A p \in Procs :
              call[p].pc = "v_fetch" /\ call'[p].pc = "v_count" =>
                 \E c \in two_factor_codes :
                    /\ c.id = call'[p].row /\ c.user_id = call[p].uid
                    /\ c.schema = schema_name(call[p].tenant)
                    /\ ~Spent(c)
                    /\ \A d \in two_factor_codes :
                          d.schema = c.schema /\ d.user_id = c.user_id /\ ~Spent(d)
                          => d.id <= c.id
        /\ \A p \in Procs :
              call[p].op = "verify_2fa" /\ call[p].pc \notin {"v_fetch", "idle"}
              => \/ call'[p].op # "verify_2fa"
                 \/ call'[p].row = call[p].row /\ call'[p].code = call[p].code
        /\ ret'.op = "verify_2fa" /\ ret'.result = "Ok"
           => \E c \in two_factor_codes :
                 c.id = ret'.req.row /\ c.code = ret'.req.code /\ c.user_id = ret'.req.uid
      ]_vars

\* The digits of a code past its expiry have been sent and refused.
ExpiredCodeRefused ==
    /\ ret.op = "verify_2fa" /\ ret.result = "CodeExpiredOrMissing"
    /\ \E c \in two_factor_codes :
          /\ c.user_id = ret.req.uid /\ c.code = ret.req.code
          /\ ~c.used /\ c.expires_at <= now

\* The non-revoked refresh-token rows a refresh of request r looks up.
StoredRowsOf(r) ==
    {x \in refresh_tokens :
        x.schema = schema_name(r.tenant) /\ x.id = r.token.jti /\ ~x.revoked}

\* The four checks of refresh, as the request r meets them.
SignatureValid(r) == r.token.sig = RefreshSecret /\ r.token.exp >= now
RowLive(r)        == StoredRowsOf(r) # {}
RowUnexpired(r)   == \A x \in StoredRowsOf(r) : ~(x.expires_at < now)
HashMatches(r)    == \A x \in StoredRowsOf(r) :
                        x.token_hash = bcrypt_hash(JwtPrefix72(r.token))

LiveRowsOf(user_id) ==
    {x \in refresh_tokens : x.schema = Schema /\ x.user_id = user_id /\ ~x.revoked}

\* C29: rotation keeps one chain.  A refresh that has returned Ok has revoked
\* the row of its token and stored one non-revoked row for the same user,
\* whose hash the returned token matches; and whenever no request is in
\* flight the user has as many non-revoked refresh tokens as sessions were
\* established, two.
RotationKeepsOneChain ==
    /\ ret.op = "refresh" /\ ret.result = "Ok"
       => /\ \A x \in refresh_tokens :
                x.schema = schema_name(ret.req.tenant) /\ x.id = ret.req.token.jti
                => x.revoked
          /\ \E x \in LiveRowsOf(ret.req.token.sub) :
                /\ x.id = ret.req.new_rt.jti
                /\ x.token_hash = bcrypt_hash(JwtPrefix72(ret.req.new_rt))
    /\ (\A p \in Procs : call[p].pc = "idle")
       => Cardinality(LiveRowsOf("u1")) = 2

\* The password of u1 has been changed (every session of u1 in this
\* specification was established before).
PasswordChanged ==
    \E u \in users : u.id = "u1" /\ u.password_hash = bcrypt_hash("pw2")

\* C30: once change_password has completed for a user and the refreshes that
\* were in flight have returned, the user has no non-revoked refresh token
\* descending from a session established before the change.
NoSessionSurvivesPasswordChange ==
    PasswordChanged /\ (\A p \in Procs : call[p].pc = "idle")
    => LiveRowsOf("u1") = {}

\* pw is not the password of the active account user_id.
WrongPasswordFor(user_id, pw) ==
    \E u \in users : u.schema = Schema /\ u.id = user_id /\ u.is_active
                     /\ u.password_hash # bcrypt_hash(pw)

\* token_str is no reset token at all, or one that is used or expired.
DeadResetToken(token_str) ==
    \A t \in password_reset_tokens :
       t.token = token_str => t.used \/ t.expires_at <= now

\* C31: identity is verified before anything is changed.  change_password
\* and update_email with a wrong current password are answered
\* WrongPassword, reset_password with an unknown, used or expired token is
\* answered InvalidResetToken, and each such request leaves the users table
\* (password_hash, email) and the refresh tokens as they were.
IdentityCheckedFirst ==
    [][ /\ \A pw \in Passwords, new \in Passwords :
              ChangePasswordCheck(1, "u1", pw, new) /\ WrongPasswordFor("u1", pw)
              => ret'.op = "change_password" /\ ret'.result = "WrongPassword"
        /\ \A e \in Emails, pw \in Passwords :
              UpdateEmailCheck(1, "u1", e, pw) /\ WrongPasswordFor("u1", pw)
              => ret'.op = "update_email" /\ ret'.result = "WrongPassword"
        /\ \A t \in ResetInputs, pw \in Passwords :
              ResetFetch(1, t, pw) /\ DeadResetToken(t)
              => ret'.op = "reset_password" /\ ret'.result = "InvalidResetToken"
        /\ ret'.op \in {"change_password", "update_email", "reset_password"}
             /\ ret'.result \in {"WrongPassword", "InvalidResetToken", "UserNotFound"}
           => UNCHANGED <<users, refresh_tokens, password_reset_tokens, issued>>
      ]_vars

\* A used reset token has been refused after the password it set.
UsedResetTokenRefused ==
    /\ ret.op = "reset_password" /\ ret.result = "InvalidResetToken"
    /\ \E t \in password_reset_tokens : t.used /\ hist.redeemed[t.id] > 0
    /\ \E r \in refresh_tokens : r.user_id = "u1"

\* The trusted_devices rows a cookie names.
DeviceRowsOf(cookie) ==
    {d \in trusted_devices : d.schema = Schema /\ Len(cookie) >= 1 /\ d.id = cookie[1]}

DeliveryFailureAbortsLogin ==
    ret.op = "login" /\ ret.result = "EmailSendFailed" =>
        /\ ret.req.new_rt = NoToken /\ ret.new_dev = NoCookie
        /\ \A x \in refresh_tokens : x.id # ret.req.new_rt.jti
        /\ Cardinality(ActiveCodes(Schema, ret.req.uid)) <= 1

\* The device rows that make cookie a valid second factor of user_id.
TrustedRowsOf(user_id, cookie) ==
    {d \in trusted_devices :
        /\ d.schema = Schema /\ d.user_id = user_id /\ d.expires_at > now
        /\ Len(cookie) = 2 /\ d.id = cookie[1]
        /\ d.token_hash = bcrypt_hash(<<cookie[2]>>)}

\* C34: no token pair without a password check and a second factor.  A
\* login gets past its first step only with the password of an active
\* account of the tenant, and is bound to that account; a 2FA code is stored
\* only by such a login, for its account; a login stores a refresh token only
\* after the device check passed on a cookie of its account, and verify_2fa
\* only after the submitted code matched a stored code of its account; and a
\* token pair is handed out by these two paths only.
SecondFactorNeverSkipped ==
    [][ /\ \A t \in TenantInputs, e \in FactorEmails, pw \in Passwords,
              c \in {NoCookie} \cup issued.dev :
              LoginCredentials(1, t, e, pw, c) /\ call'[1].pc # "idle"
              => \E u \in users :
                    /\ u.schema = schema_name(t) /\ u.email = e /\ u.is_active
                    /\ u.password_hash = bcrypt_hash(pw)
                    /\ call'[1].uid = u.id /\ call'[1].tenant = t
        /\ \A p \in Procs :
              call[p].op \in {"login", "verify_2fa"} /\ call'[p].op = call[p].op
              => call'[p].uid = call[p].uid /\ call'[p].tenant = call[p].tenant
        /\ \A d \in two_factor_codes' :
              (\A c \in two_factor_codes : c.id # d.id)
              => \E p \in Procs : /\ call[p].op = "login" /\ call[p].pc = "l_code"
                                  /\ d.user_id = call[p].uid
        /\ \A p \in Procs :
              call'[p].pc = "l_refresh" /\ call[p].pc # "l_refresh"
              => /\ call[p].pc = "l_validate"
                 /\ TrustedRowsOf(call[p].uid, call[p].cookie) # {}
        /\ \A p \in Procs :
              call'[p].pc = "v_used" /\ call[p].pc # "v_used"
              => /\ call[p].pc = "v_count"
                 /\ \E c \in two_factor_codes :
                       /\ c.id = call[p].row /\ c.user_id = call[p].uid
                       /\ c.code = call[p].code
        /\ \A p \in Procs :
              call'[p].pc = "v_refresh" /\ call[p].pc # "v_refresh"
              => call[p].pc = "v_used"
        /\ \A x \in refresh_tokens' :
              (\A y \in refresh_tokens : y.id # x.id)
              => \E p \in Procs : /\ call[p].pc \in {"l_refresh", "v_refresh"}
                                  /\ x.user_id = call[p].uid
        /\ \A tok \in issued'.rt \ issued.rt :
              /\ ret'.op \in {"login", "verify_2fa"}
              /\ ret'.result \in {"Authenticated", "Ok"}
              /\ tok.sub = ret'.req.uid
              /\ \E x \in refresh_tokens : x.id = tok.jti /\ x.user_id = tok.sub
      ]_vars

\* a@x has signed in with its password and a code, and then again with its
\* password and the device cookie that verification gave it.
BothFactorPathsTaken ==
    /\ ret.op = "login" /\ ret.result = "Authenticated" /\ ret.req.uid = "u1"
    /\ \E c \in two_factor_codes : c.user_id = "u1" /\ hist.consumed[c.id] = 1
    /\ Cardinality({tok \in issued.rt : tok.sub = "u1"}) = 2

\* The account user_id is active.
IsActive(user_id) ==
    \E u \in users : u.schema = Schema /\ u.id = user_id /\ u.is_active

\* C35: a deactivated user gets no tokens.  A login or verify_2fa for the
\* email of a deactivated account is answered InvalidCredentials at its first
\* statement; a refresh gets past its user lookup only while the account is
\* active, also when the deactivation came after the login or after an
\* earlier refresh; and a refresh that fails at the lookup has stored no new
\* token and leaves the presented token revoked.
DeactivatedGetsNoTokens ==
    [][ /\ \A pw \in Passwords, c \in {NoCookie} \cup issued.dev :
              LoginCredentials(1, Tenant, "a@x", pw, c) /\ ~IsActive("u1")
              => ret'.result = "InvalidCredentials"
        /\ \A code \in CodeInputs :
              VerifyUser(1, Tenant, "a@x", code) /\ ~IsActive("u1")
              => ret'.result = "InvalidCredentials"
        /\ \A p \in Procs :
              call[p].pc = "r_user" /\ call'[p] # call[p]
              => IF IsActive(call[p].uid)
                 THEN call'[p].pc = "r_insert"
                 ELSE ret'.op = "refresh" /\ ret'.result = "RowNotFound"
        /\ \A p \in Procs :
              call'[p].pc = "r_insert" /\ call[p].pc # "r_insert"
              => call[p].pc = "r_user"
        /\ ret'.op = "refresh" /\ ret'.result = "Ok"
           => \E p \in Procs : call[p].op = "refresh" /\ call[p].pc = "r_insert"
        /\ ret'.op = "refresh" /\ ret'.result = "RowNotFound"
           => /\ UNCHANGED <<refresh_tokens, issued>>
              /\ \A x \in refresh_tokens :
                    x.schema = Schema /\ x.id = ret'.req.token.jti => x.revoked
      ]_vars

\* A refresh of the deactivated account has failed at the user lookup, its
\* token revoked.
DeactivatedRefreshRefused ==
    /\ ret.op = "refresh" /\ ret.result = "RowNotFound"
    /\ ~IsActive("u1")
    /\ \E x \in refresh_tokens : x.id = ret.req.token.jti /\ x.revoked

\* C36: a device cookie is bound to the user it was issued to.  A login is
\* answered Authenticated only on a cookie whose device row belongs to the
\* account whose password was checked, so the cookie of one account never
\* spares another account the second factor.
DeviceCookieBoundToUser ==
    ret.op = "login" /\ ret.result = "Authenticated" =>
        \E d \in trusted_devices :
           /\ d.schema = schema_name(ret.req.tenant)
           /\ Len(ret.req.cookie) = 2 /\ d.id = ret.req.cookie[1]
           /\ d.user_id = ret.req.uid

\* b@x has logged in with its own password and the cookie issued to a@x,
\* and has been asked for the second factor.
ForeignCookieAskedTwoFactor ==
    /\ ret.op = "login" /\ ret.result = "TwoFactorRequired" /\ ret.req.uid = "u2"
    /\ ret.req.cookie \in issued.dev
    /\ \E d \in trusted_devices : d.id = ret.req.cookie[1] /\ d.user_id = "u1"

\* The schema in which the refresh token with this jti was issued.
IssuedIn(jti) == {x.schema : x \in {y \in refresh_tokens : y.id = jti}}

\* C37: refresh tokens do not cross tenants.  A refresh passes its checks,
\* and is answered Ok, only under the tenant in whose schema the presented
\* token was issued; the token it returns belongs to the same tenant.
RefreshStaysInTenant ==
    /\ \A p \in Procs :
          call[p].op = "refresh" /\ call[p].pc # "idle"
          => IssuedIn(call[p].token.jti) = {schema_name(call[p].tenant)}
    /\ ret.op = "refresh" /\ ret.result = "Ok"
       => /\ IssuedIn(ret.req.token.jti) = {schema_name(ret.req.tenant)}
          /\ IssuedIn(ret.req.new_rt.jti) = {schema_name(ret.req.tenant)}

\* The token of one tenant has been presented under the other and refused.
ForeignTenantTokenRefused ==
    /\ ret.op = "refresh" /\ ret.result = "TokenRevokedOrUnknown"
    /\ ret.req.token \in issued.rt
    /\ IssuedIn(ret.req.token.jti) # {schema_name(ret.req.tenant)}
    /\ \A x \in refresh_tokens : x.id = ret.req.token.jti => ~x.revoked

\* C38: for a non-super-admin, no request is accepted as AuthenticatedUser
\* when the tenant the request resolves to (X-Tenant header or Host
\* subdomain) differs from the tenant claim of its access token.
TenantClaimMatchesRequest ==
    /\ http.op = "request"
    /\ http.user.result = "Ok"
    /\ http.user.user.role # "super_admin"
    /\ http.tenant.result = "Ok"
    => http.user.user.tenant = http.tenant.value

\* C39: for any two different slugs accepted by is_valid_slug, schema_name
\* returns different schema names.
ValidSlugsGetDistinctSchemas ==
    \A x, y \in named :
        is_valid_slug(x.slug) /\ is_valid_slug(y.slug) /\ x.slug # y.slug
        => x.schema # y.schema

\* Two accepted slugs that differ only by a hyphen have been named, and
\* their schemas differ.
HyphenatedSlugNamedApart ==
    \E x, y \in named :
        /\ is_valid_slug(x.slug) /\ is_valid_slug(y.slug)
        /\ x.slug # y.slug
        /\ replace(x.slug, Hyphen, <<>>) = y.slug
        /\ x.schema # y.schema

\* C40: check_rate_limit admits at most max_attempts calls per key within
\* one window: once the counter exceeds max_attempts every further call is
\* rejected with 429 until the window set on the first increment expires,
\* and the window is not extended by later attempts.
RateLimitHolds ==
    /\ \A k \in RateKeys : rate[k].admitted <= LoginAttempts
    /\ \A k \in RateKeys : ~rate[k].extended
    /\ ret.op = "check_rate_limit" /\ ret.req.late
       => ret.result = "TooManyRequests"
====
